---- MODULE Spec2Model ----
(***************************************************************************)
(* A model of the lpaas job core (pkg/linuxjobs): one job of one           *)
(* JobManager, its child process, the output writer, the monitor           *)
(* goroutine, concurrent StopJob callers, a Status observer and stream     *)
(* readers.  Critical sections of job.mu that no other goroutine can       *)
(* observe are single steps; the monitor's long critical section is split  *)
(* so that the lock-free accesses (done, outBuf, newData) can interleave.  *)
(***************************************************************************)
EXTENDS Integers, Sequences, FiniteSets, TLC

\* ---------------------------------------------------------------- bounds
MaxWrites == 2
MaxChunk == 1
MaxDst == 1
MaxProcs == 1
MaxAttempts == 2

\* ------------------------------------------------------------ value sets
Readers == {"r1", "r2"}
Stoppers == {"c1", "c2"}
JobId == "job-1"
MissingId == "job-x"
Constructions == {"k1", "k2", "k3"}
Owners == {"A", "B"}
Requests == {"q1", "q2", "q3"}
NoCert == "nocert"
Ctxs == Owners \cup {NoCert}
Ids == {JobId, MissingId}
ExitCodes == {-1, 7}

\* status (job.go:25-35)
unknown == "Unknown"
running == "Running"
stopped == "Stopped"
exited == "Exited"
failed == "Failed"
Terminal == {exited, failed, stopped}

\* the error values cmd.Wait() can return: nil, *exec.ExitError carrying a
\* code (-1 when the child was signalled), or an error without a code
NilErr == [kind |-> "nil", code |-> 0]
ExitError(c) == [kind |-> "exit", code |-> c]
OtherErr == [kind |-> "other", code |-> 0]
CleanupErr == [kind |-> "cleanup", code |-> 0]
NotFoundErr == [kind |-> "notfound", code |-> 0]
ReapResults == {NilErr, OtherErr} \cup {ExitError(c) : c \in ExitCodes}

Min(a, b) == IF a < b THEN a ELSE b

\* what the child writes: the byte at position i of its output is 0xFF
\* (never valid UTF-8) or NUL, so that neighbouring bytes differ; a chunk is
\* the next k bytes of that output
ByteAt(i) == IF i % 2 = 1 THEN 255 ELSE 0
Chunk(n, k) == [i \in 1..k |-> ByteAt(n + i)]
ChunkSizes == 1..MaxChunk
DstSizes == 0..MaxDst

VARIABLES
    jobs,        \* JobManager.jobs: the identifiers in the registry
    spc,         \* position of the StartJob call
    cgroupDir,   \* the job's cgroup directory: "none", "exists", "deleted"
    status,      \* job.status
    exitErr,     \* job.exitErr
    exitCode,    \* job.exitCode
    cleanupErr,  \* job.cleanupErr # nil
    cancelled,   \* jobContext.Err() # nil
    done,        \* job.done is closed
    mu,          \* holder of job.mu: "free" or "monitor"
    outBuf,      \* job.outBuf: [b: the bytes, n: the length counter]
    readers,     \* keys of job.readers
    newData,     \* per reader channel: [cnt: 0..1, closed: BOOLEAN]
    child,       \* the child process: "none", "running", "exited"
    waitErr,     \* what cmd.Wait() returns once the child is gone
    nWrites,     \* Write calls so far
    wpc,         \* position of notifyingWriter.Write
    mpc,         \* position of the monitor goroutine
    monCancel,   \* jobContext.Err() # nil as the monitor read it
    cpc,         \* per StopJob caller: position
    cres,        \* per StopJob caller: result
    cid,         \* per StopJob caller: the id it asked for
    obs,         \* the last answer of JobManager.Status
    rpc,         \* per reader: position
    rkind,       \* per reader: "none", "live" (streamingReader), "static"
    rid,         \* per reader: the id StreamJob was called with
    rdone,       \* per reader: the local done of job.stream
    offset,      \* per reader: streamingReader.offset / bytes.Reader position
    dst,         \* per reader: len(p) of the Read that is parked
    snap,        \* per static reader: the snapshot it reads
    got,         \* per reader: every byte Read has returned so far
    eof,         \* per reader: Read has returned io.EOF
    managers,    \* keys of Server.managers: the owners that have a JobManager
    jobOwner,    \* the owner whose StartJob request made the job, or "none"
    cown,        \* per StopJob caller: who asked, as the transport saw it
    scode,       \* per StopJob caller: the gRPC code of the answer
    resp,        \* the outcome of the checks of the last other request
    initMu,      \* holder of cgroupInitMu: "free" or a construction
    cgroupInitDone, \* the package variable cgroupInitDone
    initRuns,    \* how often the body of ensureCgroupHierarchy was entered
    lpaasRoot,   \* the lpaas cgroup root: "none", "made", "enabled"
    ipc,         \* per construction: position in ensureCgroupHierarchy
    ires,        \* per construction: what ensureCgroupHierarchy returned
    abandoned,   \* the streams whose context the client has cancelled
    dpc,         \* position of the monitor in cgroupv2.delete
    dres,        \* what cgroupv2.delete returned
    killed,      \* "1" has been written to cgroup.kill
    cgProcs,     \* processes still alive in the job's cgroup
    attempts,    \* ticks of the poll loop, one os.RemoveAll each
    wtodo,       \* the readers the writer's notification pass has yet to visit
    smu,         \* holder of Server.mu: "free" or a request
    qpc,         \* per request: position in its handler
    qown,        \* per request: the owner it comes from
    qmgr,        \* per request: the manager it was given (0: none)
    mgrOf,       \* Server.managers: per owner, its manager (0: none)
    mgrMade      \* per owner: how many managers were made for it

jobVars == <<status, exitErr, exitCode, cleanupErr, cancelled, done, mu>>
procVars == <<child, waitErr, nWrites, wpc>>
monVars == <<mpc, monCancel>>
stopVars == <<cpc, cres, cid>>
readVars == <<rpc, rid, rkind, rdone, offset, dst, snap, got, eof>>
srvVars == <<managers, jobOwner, cown, scode, resp>>
initVars == <<initMu, cgroupInitDone, initRuns, lpaasRoot, ipc, ires>>
delVars == <<dpc, dres, killed, cgProcs, attempts>>
mgrVars == <<smu, qpc, qown, qmgr, mgrOf, mgrMade>>
vars == <<jobs, spc, cgroupDir, jobVars, outBuf, readers, newData, procVars,
          monVars, stopVars, obs, readVars, srvVars, initVars, abandoned, delVars, wtodo, mgrVars>>

NoObs ==
    [id |-> MissingId, found |-> FALSE, st |-> "", has |-> FALSE, code |-> 0,
     err |-> <<>>]

\* no answer yet
NoResp == [op |-> "none", ctx |-> "none", id |-> "none", code |-> "none"]

Init ==
    /\ jobs = {}
    /\ spc = "idle"
    /\ cgroupDir = "none"
    /\ status = unknown
    /\ exitErr = NilErr
    /\ exitCode = 0
    /\ cleanupErr = FALSE
    /\ cancelled = FALSE
    /\ done = FALSE
    /\ mu = "free"
    /\ outBuf = [b |-> <<>>, n |-> 0]
    /\ readers = {}
    /\ newData = [r \in Readers |-> [cnt |-> 0, closed |-> FALSE]]
    /\ child = "none"
    /\ waitErr = NilErr
    /\ nWrites = 0
    /\ wpc = "idle"
    /\ mpc = "none"
    /\ monCancel = FALSE
    /\ cpc = [c \in Stoppers |-> "idle"]
    /\ cres = [c \in Stoppers |-> "none"]
    /\ cid = [c \in Stoppers |-> "none"]
    /\ obs = NoObs
    /\ rpc = [r \in Readers |-> "none"]
    /\ rid = [r \in Readers |-> "none"]
    /\ rkind = [r \in Readers |-> "none"]
    /\ rdone = [r \in Readers |-> FALSE]
    /\ offset = [r \in Readers |-> 0]
    /\ dst = [r \in Readers |-> 0]
    /\ snap = [r \in Readers |-> <<>>]
    /\ got = [r \in Readers |-> <<>>]
    /\ eof = [r \in Readers |-> FALSE]
    /\ managers = {}
    /\ jobOwner = "none"
    /\ cown = [c \in Stoppers |-> "none"]
    /\ scode = [c \in Stoppers |-> "none"]
    /\ resp = NoResp
    /\ initMu = "free"
    /\ cgroupInitDone = FALSE
    /\ initRuns = 0
    /\ lpaasRoot = "none"
    /\ ipc = [k \in Constructions |-> "idle"]
    /\ ires = [k \in Constructions |-> "none"]
    /\ abandoned = {}
    /\ dpc = "idle"
    /\ dres = "none"
    /\ killed = FALSE
    /\ cgProcs = 0
    /\ attempts = 0
    /\ wtodo = {}
    /\ smu = "free"
    /\ qpc = [q \in Requests |-> "idle"]
    /\ qown = [q \in Requests |-> "none"]
    /\ qmgr = [q \in Requests |-> 0]
    /\ mgrOf = [o \in Owners |-> 0]
    /\ mgrMade = [o \in Owners |-> 0]


\* ------------------------------------------------------- pure functions

\* exitCodeFromErr without the errors.As branch
exitCodeNoUnwrap(err) == IF err.kind = "nil" THEN 0 ELSE -1

\* exitCodeFromErr (job.go:315-324)
exitCodeFromErr(err) ==
    IF err.kind = "nil" THEN 0
    ELSE IF err.kind = "exit" THEN err.code
    ELSE -1

\* the monitor looking at the reap error before the context
monitorStatusErrFirst(ctxErr, err) ==
    IF err.kind = "nil" THEN exited
    ELSE IF ctxErr THEN stopped
    ELSE failed

\* the monitor's choice of terminal status (job.go:137-143)
monitorStatus(ctxErr, err) ==
    IF ctxErr THEN stopped
    ELSE IF err.kind = "nil" THEN exited
    ELSE failed

\* a write that replaces the content and still adds to the counter
bufWriteReplace(l, p) == [b |-> p, n |-> l.n + Len(p)]

\* lockedBuffer.write (job.go:278-284)
bufWrite(l, p) == [b |-> l.b \o p, n |-> l.n + Len(p)]

\* lockedBuffer.len (job.go:286-291)
bufLen(l) == l.n

\* lockedBuffer.bytes (job.go:293-297)
bufBytes(l) == l.b

\* readAt copying nothing and reporting no error while data remains
readAtNothing(l, plen, off) ==
    IF off >= l.n THEN [n |-> 0, data |-> <<>>, eof |-> TRUE]
    ELSE [n |-> 0, data |-> <<>>, eof |-> FALSE]

\* readAt copying from the start of the buffer instead of from the offset
readAtFromStart(l, plen, off) ==
    IF off >= l.n THEN [n |-> 0, data |-> <<>>, eof |-> TRUE]
    ELSE LET n == Min(plen, Len(l.b) - off)
         IN [n |-> n, data |-> SubSeq(l.b, 1, n), eof |-> FALSE]

\* lockedBuffer.readAt (job.go:299-312): n bytes copied, the bytes, io.EOF?
readAt(l, plen, off) ==
    IF off >= l.n THEN [n |-> 0, data |-> <<>>, eof |-> TRUE]
    ELSE LET n == Min(plen, Len(l.b) - off)
         IN [n |-> n, data |-> SubSeq(l.b, off + 1, off + n), eof |-> FALSE]

\* status.String (job.go:37-50)
String(s) ==
    CASE s = running -> "Running"
      [] s = stopped -> "Stopped"
      [] s = exited -> "Exited"
      [] s = failed -> "Failed"
      [] OTHER -> "Unknown"

\* ---------------------------------------------------------- StartJob

\* newJob (job.go:75-94) succeeds: the cgroup exists and has its limits
StartNewJob ==
    /\ spc = "idle"
    /\ spc' = "created"
    /\ cgroupDir' = "exists"
    /\ UNCHANGED <<jobs, jobVars, outBuf, readers, newData, procVars,
                   monVars, stopVars, obs, readVars, srvVars, initVars, abandoned, delVars, wtodo, mgrVars>>

\* newJob fails: newCGroupV2 failed (no directory) or setLimits failed
\* (directory made); StartJob returns the error (jobmanager.go:34-37)
StartNewJobFail ==
    /\ spc = "idle"
    /\ spc' = "failed"
    /\ \E made \in BOOLEAN : cgroupDir' = IF made THEN "exists" ELSE "none"
    /\ UNCHANGED <<jobs, jobVars, outBuf, readers, newData, procVars,
                   monVars, stopVars, obs, readVars, srvVars, initVars, abandoned, delVars, wtodo, mgrVars>>

\* job.start launching the child and the monitor without recording running
JobStartNoStatus ==
    /\ spc = "created"
    /\ spc' = "started"
    /\ child' = "running"
    /\ mpc' = "wait"
    /\ UNCHANGED <<jobs, cgroupDir, jobVars, outBuf, readers, newData,
                   waitErr, nWrites, wpc, monCancel, stopVars, obs, readVars, srvVars, initVars, abandoned, delVars, wtodo, mgrVars>>

\* job.start (job.go:99-156) succeeds: the child runs, status is running
\* and the monitor goroutine is launched
JobStart ==
    /\ spc = "created"
    /\ spc' = "started"
    /\ status' = running
    /\ child' = "running"
    /\ mpc' = "wait"
    /\ UNCHANGED <<jobs, cgroupDir, exitErr, exitCode, cleanupErr, cancelled,
                   done, mu, outBuf, readers, newData, waitErr, nWrites, wpc,
                   monCancel, stopVars, obs, readVars, srvVars, initVars, abandoned, delVars, wtodo, mgrVars>>

\* a StartJob that registers the job although job.start failed
JobStartFailRegistered ==
    /\ spc = "created"
    /\ spc' = "failed"
    /\ jobs' = jobs \cup {JobId}
    /\ UNCHANGED <<cgroupDir, jobVars, outBuf, readers, newData,
                   procVars, monVars, stopVars, obs, readVars, srvVars, initVars, abandoned, delVars, wtodo, mgrVars>>

\* job.start fails in openFD or cmd.Start (job.go:103-106, 121-123);
\* StartJob returns the error (jobmanager.go:40-42)
JobStartFail ==
    /\ spc = "created"
    /\ spc' = "failed"
    /\ UNCHANGED <<jobs, cgroupDir, jobVars, outBuf, readers, newData,
                   procVars, monVars, stopVars, obs, readVars, srvVars, initVars, abandoned, delVars, wtodo, mgrVars>>

\* StartJob inserts the job and returns its id (jobmanager.go:44-48)
StartInsert ==
    /\ spc = "started"
    /\ spc' = "returned"
    /\ jobs' = jobs \cup {JobId}
    /\ UNCHANGED <<cgroupDir, jobVars, outBuf, readers, newData, procVars,
                   monVars, stopVars, obs, readVars, srvVars, initVars, abandoned, delVars, wtodo, mgrVars>>

\* ------------------------------------------- child process and writer

\* output that is still copied after cmd.Wait() has returned
ChildWriteAnytime(p) ==
    /\ child # "none"
    /\ wpc = "idle"
    /\ nWrites < MaxWrites
    /\ outBuf' = bufWrite(outBuf, p)
    /\ nWrites' = nWrites + 1
    /\ wpc' = "notify"
    /\ UNCHANGED <<jobs, spc, cgroupDir, jobVars, readers, newData, child,
                   waitErr, monVars, stopVars, obs, readVars, srvVars, initVars, abandoned, delVars, wtodo, mgrVars>>

\* notifyingWriter.Write, first half (job.go:214): the chunk is appended
ChildWrite(p) ==
    /\ child = "running"
    /\ wpc = "idle"
    /\ nWrites < MaxWrites
    /\ outBuf' = bufWrite(outBuf, p)
    /\ nWrites' = nWrites + 1
    /\ wpc' = "notify"
    /\ UNCHANGED <<jobs, spc, cgroupDir, jobVars, readers, newData, child,
                   waitErr, monVars, stopVars, obs, readVars, srvVars, initVars, abandoned, delVars, wtodo, mgrVars>>

\* the non-blocking send to one reader's channel (job.go:219-222)
notify(ch) == IF ch.cnt = 0 THEN [ch EXCEPT !.cnt = 1] ELSE ch

\* a writer whose send waits until every registered reader's channel has room
WriterNotifyBlocking ==
    /\ wpc = "notify"
    /\ mu = "free"
    /\ \A r \in readers : newData[r].cnt = 0
    /\ newData' = [r \in Readers |->
                     IF r \in readers THEN notify(newData[r]) ELSE newData[r]]
    /\ wpc' = "idle"
    /\ UNCHANGED <<jobs, spc, cgroupDir, jobVars, outBuf, readers, child,
                   waitErr, nWrites, monVars, stopVars, obs, readVars,
                   srvVars, initVars, abandoned, delVars, wtodo, mgrVars>>

\* notifyingWriter.Write, second half (job.go:217-224), under job.mu
WriterNotify ==
    /\ wpc = "notify"
    /\ mu = "free"
    /\ newData' = [r \in Readers |->
                     IF r \in readers THEN notify(newData[r]) ELSE newData[r]]
    /\ wpc' = "idle"
    /\ UNCHANGED <<jobs, spc, cgroupDir, jobVars, outBuf, readers, child,
                   waitErr, nWrites, monVars, stopVars, obs, readVars, srvVars, initVars, abandoned, delVars, wtodo, mgrVars>>

\* the child is gone and its pipe is drained: cmd.Wait() can return res
ChildExit(res) ==
    /\ child = "running"
    /\ wpc = "idle"
    /\ child' = "exited"
    /\ waitErr' = res
    /\ UNCHANGED <<jobs, spc, cgroupDir, jobVars, outBuf, readers, newData,
                   nWrites, wpc, monVars, stopVars, obs, readVars, srvVars, initVars, abandoned, delVars, wtodo, mgrVars>>

\* ------------------------------------------------- monitor goroutine

\* a monitor that goes to the cgroup deletion as soon as cmd.Wait() has
\* returned, before anything is recorded
MonitorWaitThenDelete ==
    /\ mpc = "wait"
    /\ child = "exited"
    /\ mu = "free"
    /\ mu' = "monitor"
    /\ mpc' = "delete"
    /\ UNCHANGED <<jobs, spc, cgroupDir, status, exitErr, exitCode,
                   cleanupErr, cancelled, done, outBuf, readers, newData,
                   procVars, monCancel, stopVars, obs, readVars, srvVars,
                   initVars, abandoned, delVars, wtodo, mgrVars>>

\* cmd.Wait() returns (job.go:131)
MonitorWait ==
    /\ mpc = "wait"
    /\ child = "exited"
    /\ mpc' = "lock"
    /\ UNCHANGED <<jobs, spc, cgroupDir, jobVars, outBuf, readers, newData,
                   procVars, monCancel, stopVars, obs, readVars, srvVars, initVars, abandoned, delVars, wtodo, mgrVars>>

\* job.go:133-143: lock, record the error, the code and the status
MonitorRecord ==
    /\ mpc = "lock"
    /\ mu = "free"
    /\ mu' = "monitor"
    /\ exitErr' = waitErr
    /\ exitCode' = exitCodeFromErr(waitErr)
    /\ status' = monitorStatus(cancelled, waitErr)
    /\ monCancel' = cancelled
    /\ mpc' = "delete"
    /\ UNCHANGED <<jobs, spc, cgroupDir, cleanupErr, cancelled, done, outBuf,
                   readers, newData, procVars, stopVars, obs, readVars, srvVars, initVars, abandoned, delVars, wtodo, mgrVars>>

\* a monitor that gives up when cgroup.delete() fails: it unlocks and
\* returns without closing j.done
MonitorDeleteAbort ==
    /\ mpc = "delete"
    /\ \E ok \in BOOLEAN :
         /\ cgroupDir' = IF ok THEN "deleted" ELSE cgroupDir
         /\ cleanupErr' = ~ok
         /\ mpc' = IF ok THEN "close" ELSE "finished"
         /\ mu' = IF ok THEN mu ELSE "free"
    /\ UNCHANGED <<jobs, spc, status, exitErr, exitCode, cancelled, done,
                   outBuf, readers, newData, procVars, monCancel, stopVars,
                   obs, readVars, srvVars, initVars, abandoned, delVars, wtodo, mgrVars>>

\* job.go:145-147: cgroup.delete() removes the directory or fails
MonitorDelete ==
    /\ mpc = "delete"
    /\ \E ok \in BOOLEAN :
         /\ cgroupDir' = IF ok THEN "deleted" ELSE cgroupDir
         /\ cleanupErr' = ~ok
    /\ mpc' = "close"
    /\ UNCHANGED <<jobs, spc, status, exitErr, exitCode, cancelled, done, mu,
                   outBuf, readers, newData, procVars, monCancel, stopVars,
                   obs, readVars, srvVars, initVars, abandoned, delVars, wtodo, mgrVars>>

\* job.go:149: close(j.done)
MonitorClose ==
    /\ mpc = "close"
    /\ done' = TRUE
    /\ mpc' = "unlock"
    /\ UNCHANGED <<jobs, spc, cgroupDir, status, exitErr, exitCode,
                   cleanupErr, cancelled, mu, outBuf, readers, newData,
                   procVars, monCancel, stopVars, obs, readVars, srvVars, initVars, abandoned, delVars, wtodo, mgrVars>>

\* the monitor dropping the finished job from the registry as it unlocks
MonitorUnlockForget ==
    /\ mpc = "unlock"
    /\ mu' = "free"
    /\ mpc' = "finished"
    /\ jobs' = jobs \ {JobId}
    /\ UNCHANGED <<spc, cgroupDir, status, exitErr, exitCode,
                   cleanupErr, cancelled, done, outBuf, readers, newData,
                   procVars, monCancel, stopVars, obs, readVars, srvVars,
                   initVars, abandoned, delVars, wtodo, mgrVars>>

\* job.go:151: j.mu.Unlock()
MonitorUnlock ==
    /\ mpc = "unlock"
    /\ mu' = "free"
    /\ mpc' = "finished"
    /\ UNCHANGED <<jobs, spc, cgroupDir, status, exitErr, exitCode,
                   cleanupErr, cancelled, done, outBuf, readers, newData,
                   procVars, monCancel, stopVars, obs, readVars, srvVars, initVars, abandoned, delVars, wtodo, mgrVars>>


\* ---------------------------------------------------------- StopJob

\* StopJob going on to job.stop whatever the lookup gave
StopLookupAny(c, id) ==
    /\ cpc[c] \in {"idle", "routed"}
    /\ cres[c] = "none"
    /\ cid' = [cid EXCEPT ![c] = id]
    /\ cpc' = [cpc EXCEPT ![c] = "check"]
    /\ UNCHANGED <<jobs, spc, cgroupDir, jobVars, outBuf, readers, newData,
                   procVars, monVars, cres, obs, readVars, srvVars, initVars, abandoned, delVars, wtodo, mgrVars>>

\* StopJob looks the job up (jobmanager.go:53-58)
StopLookup(c, id) ==
    /\ cpc[c] \in {"idle", "routed"}
    /\ cres[c] = "none"
    /\ cid' = [cid EXCEPT ![c] = id]
    /\ IF id \in jobs
         THEN /\ cpc' = [cpc EXCEPT ![c] = "check"]
              /\ cres' = cres
         ELSE /\ cpc' = [cpc EXCEPT ![c] = "returned"]
              /\ cres' = [cres EXCEPT ![c] = "not found"]
    /\ UNCHANGED <<jobs, spc, cgroupDir, jobVars, outBuf, readers, newData,
                   procVars, monVars, obs, readVars, srvVars, initVars, abandoned, delVars, wtodo, mgrVars>>

\* a job.stop that keeps job.mu while it cancels and waits
JobStopCheckHoldLock(c) ==
    /\ cpc[c] = "check"
    /\ mu = "free"
    /\ IF status # running
         THEN /\ cpc' = [cpc EXCEPT ![c] = "returned"]
              /\ cres' = [cres EXCEPT ![c] = "not running"]
              /\ mu' = mu
         ELSE /\ cpc' = [cpc EXCEPT ![c] = "cancel"]
              /\ cres' = cres
              /\ mu' = c
    /\ UNCHANGED <<jobs, spc, cgroupDir, status, exitErr, exitCode,
                   cleanupErr, cancelled, done, outBuf, readers, newData,
                   procVars, monVars, obs, readVars, srvVars, cid, initVars,
                   abandoned, delVars, wtodo, mgrVars>>

\* job.stop checks the status under job.mu (job.go:160-166)
JobStopCheck(c) ==
    /\ cpc[c] = "check"
    /\ mu = "free"
    /\ IF status # running
         THEN /\ cpc' = [cpc EXCEPT ![c] = "returned"]
              /\ cres' = [cres EXCEPT ![c] = "not running"]
         ELSE /\ cpc' = [cpc EXCEPT ![c] = "cancel"]
              /\ cres' = cres
    /\ UNCHANGED <<jobs, spc, cgroupDir, jobVars, outBuf, readers, newData,
                   procVars, monVars, obs, readVars, srvVars, cid, initVars, abandoned, delVars, wtodo, mgrVars>>

\* a job.stop that closes j.done itself right after j.cancel()
JobStopCancelClose(c) ==
    /\ cpc[c] = "cancel"
    /\ cancelled' = TRUE
    /\ done' = TRUE
    /\ cpc' = [cpc EXCEPT ![c] = "wait"]
    /\ UNCHANGED <<jobs, spc, cgroupDir, status, exitErr, exitCode,
                   cleanupErr, mu, outBuf, readers, newData, procVars,
                   monVars, cres, obs, readVars, cid, srvVars, initVars,
                   abandoned, delVars, wtodo, mgrVars>>

\* job.stop calls j.cancel() (job.go:168)
JobStopCancel(c) ==
    /\ cpc[c] = "cancel"
    /\ cancelled' = TRUE
    /\ cpc' = [cpc EXCEPT ![c] = "wait"]
    /\ UNCHANGED <<jobs, spc, cgroupDir, status, exitErr, exitCode,
                   cleanupErr, done, mu, outBuf, readers, newData, procVars,
                   monVars, cres, obs, readVars, cid, srvVars, initVars, abandoned, delVars, wtodo, mgrVars>>

\* job.stop returning right after j.cancel()
JobStopNoWait(c) ==
    /\ cpc[c] = "wait"
    /\ cpc' = [cpc EXCEPT ![c] = "set"]
    /\ UNCHANGED <<jobs, spc, cgroupDir, jobVars, outBuf, readers, newData,
                   procVars, monVars, cres, obs, readVars, cid, srvVars, initVars, abandoned, delVars, wtodo, mgrVars>>

\* job.stop waits for j.done and returns nil (job.go:170-172)
JobStopWait(c) ==
    /\ cpc[c] = "wait"
    /\ done
    /\ cpc' = [cpc EXCEPT ![c] = "set"]
    /\ UNCHANGED <<jobs, spc, cgroupDir, jobVars, outBuf, readers, newData,
                   procVars, monVars, cres, obs, readVars, cid, srvVars, initVars, abandoned, delVars, wtodo, mgrVars>>

\* StopJob returning nil once job.done is closed, leaving the status alone
StopJobReturn(c) ==
    /\ cpc[c] = "set"
    /\ done
    /\ cpc' = [cpc EXCEPT ![c] = "returned"]
    /\ cres' = [cres EXCEPT ![c] = "ok"]
    /\ UNCHANGED <<jobs, spc, cgroupDir, jobVars, outBuf, readers, newData,
                   procVars, monVars, obs, readVars, srvVars, cid, initVars, abandoned, delVars, wtodo, mgrVars>>

\* StopJob waits for job.done, sets the status under job.mu and returns nil
\* (jobmanager.go:64-70)
StopJobSet(c) ==
    /\ cpc[c] = "set"
    /\ done
    /\ mu = "free"
    /\ status' = stopped
    /\ cpc' = [cpc EXCEPT ![c] = "returned"]
    /\ cres' = [cres EXCEPT ![c] = "ok"]
    /\ UNCHANGED <<jobs, spc, cgroupDir, exitErr, exitCode, cleanupErr,
                   cancelled, done, mu, outBuf, readers, newData, procVars,
                   monVars, obs, readVars, srvVars, cid, initVars, abandoned, delVars, wtodo, mgrVars>>

\* ------------------------------------------------------------ Status

\* an error that is not nil
NonNil(e) == e.kind # "nil"

\* a join that keeps only the first error that is not nil
errorsJoinFirst(a, b) ==
    IF NonNil(a) THEN <<a>> ELSE IF NonNil(b) THEN <<b>> ELSE <<>>

\* errors.Join (job.go:179): the errors that are not nil, in order; the
\* result is nil when there is none
errorsJoin(a, b) == SelectSeq(<<a, b>>, NonNil)

\* job.statusSnapshot (job.go:176-180)
statusSnapshot ==
    [status |-> status, exitCode |-> exitCode,
     err |-> errorsJoin(exitErr, IF cleanupErr THEN CleanupErr ELSE NilErr)]

\* Status giving an exit code for every status but Unknown
StatusCodeUnlessUnknown(id) ==
    IF id \notin jobs
      THEN [id |-> id, found |-> FALSE, st |-> "Unknown", has |-> FALSE,
            code |-> 0, err |-> <<NotFoundErr>>]
      ELSE [id |-> id, found |-> TRUE, st |-> String(status),
            has |-> status # unknown,
            code |-> IF status # unknown THEN exitCode ELSE 0,
            err |-> statusSnapshot.err]

\* job.statusSnapshot joined with the exit-code rule of JobManager.Status
\* (job.go:176-180, jobmanager.go:74-92)
Status(id) ==
    IF id \notin jobs
      THEN [id |-> id, found |-> FALSE, st |-> "Unknown", has |-> FALSE,
            code |-> 0, err |-> <<NotFoundErr>>]
      ELSE [id |-> id, found |-> TRUE, st |-> String(statusSnapshot.status),
            has |-> statusSnapshot.status \in {exited, failed, stopped},
            code |-> IF statusSnapshot.status \in {exited, failed, stopped}
                       THEN statusSnapshot.exitCode ELSE 0,
            err |-> statusSnapshot.err]

\* JobManager.Status reading the job without taking job.mu
GetStatusNoLock(id) ==
    /\ obs' = Status(id)
    /\ obs' # obs
    /\ UNCHANGED <<jobs, spc, cgroupDir, jobVars, outBuf, readers, newData,
                   procVars, monVars, stopVars, readVars, srvVars, initVars, abandoned, delVars, wtodo, mgrVars>>

\* one call of JobManager.Status; the snapshot is taken under job.mu
GetStatus(id) ==
    /\ id \in jobs => mu = "free"
    /\ obs' = Status(id)
    /\ obs' # obs
    /\ UNCHANGED <<jobs, spc, cgroupDir, jobVars, outBuf, readers, newData,
                   procVars, monVars, stopVars, readVars, srvVars, initVars, abandoned, delVars, wtodo, mgrVars>>

\* ------------------------------------------------------------ stream

\* StreamJob looks the job up: not found, or job.stream reads the status
\* under job.mu (jobmanager.go:103-110, job.go:185-189)
StreamCheck(r, id) ==
    /\ rpc[r] \in {"none", "notfound", "routed"}
    /\ rid' = [rid EXCEPT ![r] = id]
    /\ IF id \notin jobs
         THEN /\ rpc' = [rpc EXCEPT ![r] = "notfound"]
              /\ rdone' = rdone
         ELSE /\ mu = "free"
              /\ rdone' = [rdone EXCEPT ![r] =
                             status \in {exited, failed, stopped}]
              /\ rpc' = [rpc EXCEPT ![r] = "stream"]
    /\ UNCHANGED <<jobs, spc, cgroupDir, jobVars, outBuf, readers, newData,
                   procVars, monVars, stopVars, obs, rkind, offset, dst,
                   snap, got, eof, srvVars, initVars, abandoned, delVars, wtodo, mgrVars>>

\* job.stream on a finished job that also enters the reader in j.readers
StreamStaticRegistered(r) ==
    /\ rpc[r] = "stream"
    /\ rdone[r]
    /\ snap' = [snap EXCEPT ![r] = bufBytes(outBuf)]
    /\ rkind' = [rkind EXCEPT ![r] = "static"]
    /\ rpc' = [rpc EXCEPT ![r] = "idle"]
    /\ readers' = readers \cup {r}
    /\ UNCHANGED <<jobs, spc, cgroupDir, jobVars, outBuf, newData,
                   procVars, monVars, stopVars, obs, rdone, offset, dst, got,
                   eof, srvVars, rid, initVars, abandoned, delVars, wtodo, mgrVars>>

\* job.stream on a finished job: a reader over a copy of the output
\* (job.go:191-193)
StreamStatic(r) ==
    /\ rpc[r] = "stream"
    /\ rdone[r]
    /\ snap' = [snap EXCEPT ![r] = bufBytes(outBuf)]
    /\ rkind' = [rkind EXCEPT ![r] = "static"]
    /\ rpc' = [rpc EXCEPT ![r] = "idle"]
    /\ UNCHANGED <<jobs, spc, cgroupDir, jobVars, outBuf, readers, newData,
                   procVars, monVars, stopVars, obs, rdone, offset, dst, got,
                   eof, srvVars, rid, initVars, abandoned, delVars, wtodo, mgrVars>>

\* job.stream handing out a reader that starts at the current end of the log
StreamLiveTail(r) ==
    /\ rpc[r] = "stream"
    /\ ~rdone[r]
    /\ mu = "free"
    /\ readers' = readers \cup {r}
    /\ newData' = [newData EXCEPT ![r] = [cnt |-> 0, closed |-> FALSE]]
    /\ offset' = [offset EXCEPT ![r] = bufLen(outBuf)]
    /\ rkind' = [rkind EXCEPT ![r] = "live"]
    /\ rpc' = [rpc EXCEPT ![r] = "idle"]
    /\ UNCHANGED <<jobs, spc, cgroupDir, jobVars, outBuf, procVars, monVars,
                   stopVars, obs, rdone, dst, snap, got, eof, srvVars, rid, initVars, abandoned, delVars, wtodo, mgrVars>>

\* job.stream on an unfinished job: a streamingReader at offset 0 with a
\* fresh channel, registered under job.mu (job.go:195-203)
StreamLive(r) ==
    /\ rpc[r] = "stream"
    /\ ~rdone[r]
    /\ mu = "free"
    /\ readers' = readers \cup {r}
    /\ newData' = [newData EXCEPT ![r] = [cnt |-> 0, closed |-> FALSE]]
    /\ offset' = [offset EXCEPT ![r] = 0]
    /\ rkind' = [rkind EXCEPT ![r] = "live"]
    /\ rpc' = [rpc EXCEPT ![r] = "idle"]
    /\ UNCHANGED <<jobs, spc, cgroupDir, jobVars, outBuf, procVars, monVars,
                   stopVars, obs, rdone, dst, snap, got, eof, srvVars, rid, initVars, abandoned, delVars, wtodo, mgrVars>>

\* bytes.Reader.Read on the snapshot, with len(p) = sz
StaticRead(r, sz) ==
    /\ rpc[r] = "idle"
    /\ rkind[r] = "static"
    /\ ~eof[r]
    /\ IF offset[r] >= Len(snap[r])
         THEN /\ eof' = [eof EXCEPT ![r] = TRUE]
              /\ UNCHANGED <<offset, got>>
         ELSE LET n == Min(sz, Len(snap[r]) - offset[r])
              IN /\ n > 0
                 /\ got' = [got EXCEPT ![r] =
                              @ \o SubSeq(snap[r], offset[r] + 1, offset[r] + n)]
                 /\ offset' = [offset EXCEPT ![r] = @ + n]
                 /\ eof' = eof
    /\ UNCHANGED <<jobs, spc, cgroupDir, jobVars, outBuf, readers, newData,
                   procVars, monVars, stopVars, obs, rpc, rkind, rdone, dst,
                   snap, srvVars, rid, initVars, abandoned, delVars, wtodo, mgrVars>>

\* Close of the reader that io.NopCloser wraps (job.go:192), called by a
\* caller that has read to the end: nothing happens to the job
StaticClose(r) ==
    /\ rkind[r] = "static"
    /\ rpc[r] = "idle"
    /\ eof[r]
    /\ rpc' = [rpc EXCEPT ![r] = "closed"]
    /\ UNCHANGED <<jobs, spc, cgroupDir, jobVars, outBuf, readers, newData,
                   procVars, monVars, stopVars, obs, rkind, rdone, offset,
                   dst, snap, got, eof, srvVars, rid, initVars, abandoned,
                   delVars, wtodo, mgrVars>>

\* the body of the loop moving the cursor to the end of the log, whatever
\* was copied
ReadBodyToEnd(r, sz) ==
    IF offset[r] < bufLen(outBuf)
      THEN LET res == readAt(outBuf, sz, offset[r])
           IN /\ offset' = [offset EXCEPT ![r] = bufLen(outBuf)]
              /\ got' = [got EXCEPT ![r] = @ \o res.data]
              /\ eof' = [eof EXCEPT ![r] = res.eof]
              /\ rpc' = [rpc EXCEPT ![r] = "idle"]
              /\ dst' = [dst EXCEPT ![r] = 0]
      ELSE /\ rpc' = [rpc EXCEPT ![r] = "select"]
           /\ dst' = [dst EXCEPT ![r] = sz]
           /\ UNCHANGED <<offset, got, eof>>

\* the body of the loop of streamingReader.Read (job.go:240-246): data is
\* there, so copy and return; otherwise go on to the select
ReadBody(r, sz) ==
    IF offset[r] < bufLen(outBuf)
      THEN LET res == readAt(outBuf, sz, offset[r])
           IN /\ offset' = [offset EXCEPT ![r] = @ + res.n]
              /\ got' = [got EXCEPT ![r] = @ \o res.data]
              /\ eof' = [eof EXCEPT ![r] = res.eof]
              /\ rpc' = [rpc EXCEPT ![r] = "idle"]
              /\ dst' = [dst EXCEPT ![r] = 0]
      ELSE /\ rpc' = [rpc EXCEPT ![r] = "select"]
           /\ dst' = [dst EXCEPT ![r] = sz]
           /\ UNCHANGED <<offset, got, eof, srvVars, rid>>

\* a caller that has not seen io.EOF calls streamingReader.Read with
\* len(p) = sz (job.go:238-246)
ReadCall(r, sz) ==
    /\ rpc[r] = "idle"
    /\ rkind[r] = "live"
    /\ ~eof[r]
    /\ ReadBody(r, sz)
    /\ UNCHANGED <<jobs, spc, cgroupDir, jobVars, outBuf, readers, newData,
                   procVars, monVars, stopVars, obs, rkind, rdone, snap, srvVars, rid, initVars, abandoned, delVars, wtodo, mgrVars>>

\* a wake that takes the notification and goes back to the select without
\* looking at the length
ReadSelectDataNoRecheck(r) ==
    /\ rpc[r] = "select"
    /\ newData[r].cnt = 1 \/ newData[r].closed
    /\ newData' = [newData EXCEPT ![r].cnt = 0]
    /\ UNCHANGED <<jobs, spc, cgroupDir, jobVars, outBuf, readers, procVars,
                   monVars, stopVars, obs, readVars, srvVars, initVars,
                   abandoned, delVars, wtodo, mgrVars>>

\* select takes <-r.newData (job.go:254-255), a pending notification or the
\* zero value of a closed channel, and the loop runs again
ReadSelectData(r) ==
    /\ rpc[r] = "select"
    /\ newData[r].cnt = 1 \/ newData[r].closed
    /\ newData' = [newData EXCEPT ![r].cnt = 0]
    /\ ReadBody(r, dst[r])
    /\ UNCHANGED <<jobs, spc, cgroupDir, jobVars, outBuf, readers, procVars,
                   monVars, stopVars, obs, rkind, rdone, snap, srvVars, rid, initVars, abandoned, delVars, wtodo, mgrVars>>

\* the done case returning io.EOF without a last look at the length
ReadSelectDoneNoRecheck(r) ==
    /\ rpc[r] = "select"
    /\ done
    /\ eof' = [eof EXCEPT ![r] = TRUE]
    /\ rpc' = [rpc EXCEPT ![r] = "idle"]
    /\ dst' = [dst EXCEPT ![r] = 0]
    /\ UNCHANGED <<offset, got>>
    /\ UNCHANGED <<jobs, spc, cgroupDir, jobVars, outBuf, readers, newData,
                   procVars, monVars, stopVars, obs, rkind, rdone, snap, srvVars, rid, initVars, abandoned, delVars, wtodo, mgrVars>>

\* select takes <-r.job.done (job.go:249-253): after a last look at the
\* length, io.EOF, or the loop runs again
ReadSelectDone(r) ==
    /\ rpc[r] = "select"
    /\ done
    /\ IF offset[r] >= bufLen(outBuf)
         THEN /\ eof' = [eof EXCEPT ![r] = TRUE]
              /\ rpc' = [rpc EXCEPT ![r] = "idle"]
              /\ dst' = [dst EXCEPT ![r] = 0]
              /\ UNCHANGED <<offset, got>>
         ELSE ReadBody(r, dst[r])
    /\ UNCHANGED <<jobs, spc, cgroupDir, jobVars, outBuf, readers, newData,
                   procVars, monVars, stopVars, obs, rkind, rdone, snap, srvVars, rid, initVars, abandoned, delVars, wtodo, mgrVars>>

\* a Close that empties the reader set
CloseDeleteAll(r) ==
    /\ rpc[r] = "idle"
    /\ rkind[r] = "live"
    /\ r \in readers
    /\ mu = "free"
    /\ readers' = {}
    /\ rpc' = [rpc EXCEPT ![r] = "closing"]
    /\ UNCHANGED <<jobs, spc, cgroupDir, jobVars, outBuf, newData, procVars,
                   monVars, stopVars, obs, rkind, rdone, offset, dst, snap,
                   got, eof, srvVars, rid, initVars, abandoned, delVars, wtodo, mgrVars>>

\* streamingReader.Close, first half (job.go:262-264), under job.mu
CloseDelete(r) ==
    /\ rpc[r] = "idle"
    /\ rkind[r] = "live"
    /\ r \in readers
    /\ mu = "free"
    /\ readers' = readers \ {r}
    /\ rpc' = [rpc EXCEPT ![r] = "closing"]
    /\ UNCHANGED <<jobs, spc, cgroupDir, jobVars, outBuf, newData, procVars,
                   monVars, stopVars, obs, rkind, rdone, offset, dst, snap,
                   got, eof, srvVars, rid, initVars, abandoned, delVars, wtodo, mgrVars>>

\* streamingReader.Close, second half (job.go:266): close(r.newData)
CloseChan(r) ==
    /\ rpc[r] = "closing"
    /\ newData' = [newData EXCEPT ![r].closed = TRUE]
    /\ rpc' = [rpc EXCEPT ![r] = "idle"]
    /\ UNCHANGED <<jobs, spc, cgroupDir, jobVars, outBuf, readers, procVars,
                   monVars, stopVars, obs, rkind, rdone, offset, dst, snap,
                   got, eof, srvVars, rid, initVars, abandoned, delVars, wtodo, mgrVars>>

\* --------------------------------------------------------- transport

\* an extraction that takes a peer without a certificate for an owner of
\* its own
extractOwnerAnyPeer(ctx) == [owner |-> ctx, err |-> FALSE]

\* extractOwnerFromTLS (README.md:58-72): the common name of the peer
\* certificate, or an error when the context carries none
extractOwnerFromTLS(ctx) ==
    IF ctx \in Owners THEN [owner |-> ctx, err |-> FALSE]
    ELSE [owner |-> "", err |-> TRUE]

\* one registry that every owner's requests are looked up in
RegistryShared(o) == jobs

\* the jobs map of the JobManager of owner o (README.md:78, 94-104): the
\* job lives in the manager of the owner whose request started it
Registry(o) == IF o = jobOwner THEN jobs ELSE {}

\* JobManager.JobExists on the manager of owner o (jobmanager.go:95-100)
JobExists(o, id) == id \in Registry(o)

\* the checks without the JobExists call
RouteNoJobCheck(ctx, id) ==
    LET who == extractOwnerFromTLS(ctx)
    IN IF who.err THEN "Unauthenticated"
       ELSE IF who.owner \notin managers THEN "NotFound"
       ELSE "OK"

\* the checks that StopJob, GetStatus and StreamOutput make before they
\* call the JobManager (README.md:137-149, 160-172, 193-205)
Route(ctx, id) ==
    LET who == extractOwnerFromTLS(ctx)
    IN IF who.err THEN "Unauthenticated"
       ELSE IF who.owner \notin managers THEN "NotFound"
       ELSE IF ~JobExists(who.owner, id) THEN "NotFound"
       ELSE "OK"

\* Server.StartJob (README.md:116-133): no identity, or the owner's manager
\* is made if need be and mgr.StartJob is called; that call is either the
\* StartJob the model follows or one that fails in newCGroupV2
ServerStartJob(ctx) ==
    LET who == extractOwnerFromTLS(ctx)
    IN /\ IF who.err
            THEN /\ resp' = [op |-> "start", ctx |-> ctx, id |-> "none",
                             code |-> "Unauthenticated"]
                 /\ UNCHANGED <<managers, jobOwner>>
            ELSE /\ managers' = managers \cup {who.owner}
                 /\ \/ /\ jobOwner = "none"
                       /\ jobOwner' = who.owner
                       /\ resp' = resp
                    \/ /\ jobOwner' = jobOwner
                       /\ resp' = [op |-> "start", ctx |-> ctx, id |-> "none",
                                   code |-> "Internal"]
       /\ <<managers', jobOwner', resp'>> # <<managers, jobOwner, resp>>
       /\ UNCHANGED <<jobs, spc, cgroupDir, jobVars, outBuf, readers, newData,
                      procVars, monVars, stopVars, obs, readVars, cown, scode, initVars, abandoned, delVars, wtodo, mgrVars>>

\* Server.StopJob up to the call of mgr.StopJob (README.md:136-149)
ServerStopJob(c, ctx, id) ==
    /\ cpc[c] = "idle"
    /\ scode[c] = "none"
    /\ cown' = [cown EXCEPT ![c] = ctx]
    /\ cid' = [cid EXCEPT ![c] = id]
    /\ IF Route(ctx, id) = "OK"
         THEN /\ cpc' = [cpc EXCEPT ![c] = "routed"]
              /\ scode' = scode
         ELSE /\ cpc' = [cpc EXCEPT ![c] = "returned"]
              /\ scode' = [scode EXCEPT ![c] = Route(ctx, id)]
    /\ UNCHANGED <<jobs, spc, cgroupDir, jobVars, outBuf, readers, newData,
                   procVars, monVars, cres, obs, readVars, managers,
                   jobOwner, resp, initVars, abandoned, delVars, wtodo, mgrVars>>

\* Server.StopJob after mgr.StopJob has returned (README.md:151-155)
ServerStopReply(c) ==
    /\ cpc[c] = "returned"
    /\ cres[c] # "none"
    /\ scode[c] = "none"
    /\ scode' = [scode EXCEPT ![c] = IF cres[c] = "ok" THEN "OK"
                                     ELSE "Internal"]
    /\ UNCHANGED <<jobs, spc, cgroupDir, jobVars, outBuf, readers, newData,
                   procVars, monVars, stopVars, obs, readVars, managers,
                   jobOwner, cown, resp, initVars, abandoned, delVars, wtodo, mgrVars>>

\* Server.GetStatus (README.md:159-188)
ServerGetStatus(ctx, id) ==
    /\ Route(ctx, id) = "OK" => mu = "free"
    /\ resp' = [op |-> "status", ctx |-> ctx, id |-> id,
                code |-> Route(ctx, id)]
    /\ obs' = IF Route(ctx, id) = "OK" THEN Status(id) ELSE obs
    /\ <<resp', obs'>> # <<resp, obs>>
    /\ UNCHANGED <<jobs, spc, cgroupDir, jobVars, outBuf, readers, newData,
                   procVars, monVars, stopVars, readVars, managers, jobOwner,
                   cown, scode, initVars, abandoned, delVars, wtodo, mgrVars>>

\* Server.StreamOutput up to the call of mgr.StreamJob (README.md:192-205)
ServerStreamOutput(r, ctx, id) ==
    /\ rpc[r] = "none"
    /\ resp' = [op |-> "stream", ctx |-> ctx, id |-> id,
                code |-> Route(ctx, id)]
    /\ IF Route(ctx, id) = "OK"
         THEN rpc' = [rpc EXCEPT ![r] = "routed"]
         ELSE rpc' = rpc /\ resp' # resp
    /\ UNCHANGED <<jobs, spc, cgroupDir, jobVars, outBuf, readers, newData,
                   procVars, monVars, stopVars, obs, rkind, rdone, offset,
                   dst, snap, got, eof, managers, jobOwner, cown, scode, rid, initVars, abandoned, delVars, wtodo, mgrVars>>

\* ------------------------------------------------------ specifications

\* Callers and readers are named in their order of arrival: the second name
\* is used only once the first one is in use.
FirstStopper(c) == c = "c1" \/ cpc["c1"] # "idle"
FirstReader(r) == r = "r1" \/ rpc["r1"] # "none"

StartStep ==
    \/ StartNewJob
    \/ StartNewJobFail
    \/ JobStart
    \/ JobStartFail
    \/ StartInsert

MonitorStep ==
    \/ MonitorWait
    \/ MonitorRecord
    \/ MonitorDelete
    \/ MonitorClose
    \/ MonitorUnlock

StopStep(c) ==
    \/ \E id \in Ids : FirstStopper(c) /\ cpc[c] = "idle" /\ StopLookup(c, id)
    \/ JobStopCheck(c)
    \/ JobStopCancel(c)
    \/ JobStopWait(c)
    \/ StopJobSet(c)

WriteStep ==
    \/ \E k \in ChunkSizes : ChildWrite(Chunk(outBuf.n, k))
    \/ WriterNotify

ReadStep(r) ==
    \/ \E sz \in DstSizes : ReadCall(r, sz)
    \/ ReadSelectData(r)
    \/ ReadSelectDone(r)

StreamStep(r) ==
    \/ FirstReader(r) /\ rpc[r] = "none" /\ JobId \in jobs
          /\ StreamCheck(r, JobId)
    \/ StreamStatic(r)
    \/ StreamLive(r)
    \/ \E sz \in DstSizes : StaticRead(r, sz)
    \/ StaticClose(r)
    \/ ReadStep(r)
    \/ CloseDelete(r)
    \/ CloseChan(r)

\* StreamJob called for an id that the registry does not hold
StreamMissing ==
    \E id \in Ids : id \notin jobs /\ StreamCheck("r1", id)

\* the life cycle: StartJob, the child, the monitor, two concurrent StopJob
\* callers and Status
Next ==
    \/ StartStep
    \/ \E res \in ReapResults : ChildExit(res)
    \/ MonitorStep
    \/ \E c \in Stoppers : StopStep(c)
    \/ \E id \in Ids : GetStatus(id)
    \/ StreamMissing

Spec == Init /\ [][Next]_vars

\* the output fan-out: StartJob, the child and its writer, the monitor and
\* two stream readers; the readers never see what cmd.Wait() returned, so
\* the child ends here with nil or with exit code 7
StreamResults == {NilErr, ExitError(7)}

StreamNext ==
    \/ StartStep
    \/ WriteStep
    \/ \E res \in StreamResults : ChildExit(res)
    \/ MonitorStep
    \/ \E r \in Readers : StreamStep(r)

StreamSpec == Init /\ [][StreamNext]_vars

\* liveness: one StopJob caller, one reader, the writer and the monitor.
\* The monitor, the writer, a caller whose wait is over and a Read whose
\* select has a ready case run on, and the reader keeps calling Read with
\* a non-empty p.  Nothing makes the child exit.
LiveNext ==
    \/ StartStep
    \/ WriteStep
    \/ \E res \in StreamResults : ChildExit(res)
    \/ MonitorStep
    \/ StopStep("c1")
    \/ StreamStep("r1")

Fairness ==
    /\ WF_vars(MonitorStep)
    /\ WF_vars(WriterNotify)
    /\ WF_vars(JobStopWait("c1") \/ StopJobSet("c1"))
    /\ WF_vars(CloseChan("r1"))
    /\ WF_vars(StreamLive("r1") \/ StreamStatic("r1"))
    /\ WF_vars(\E sz \in 1..MaxDst : ReadCall("r1", sz))
    /\ WF_vars(ReadSelectData("r1"))
    /\ WF_vars(ReadSelectDone("r1"))

LiveSpec == Init /\ [][LiveNext]_vars /\ Fairness

\* the transport: requests of two owners and of a peer without a
\* certificate, for a job whose child writes nothing, with one StopJob
\* request and one StreamOutput request in flight
ServerStop(c) ==
    \/ \E ctx \in Ctxs, id \in Ids : ServerStopJob(c, ctx, id)
    \/ cpc[c] = "routed" /\ StopLookup(c, cid[c])
    \/ JobStopCheck(c)
    \/ JobStopCancel(c)
    \/ JobStopWait(c)
    \/ StopJobSet(c)
    \/ ServerStopReply(c)

ServerStream(r) ==
    \/ \E ctx \in Ctxs, id \in Ids : ServerStreamOutput(r, ctx, id)
    \/ rpc[r] = "routed" /\ StreamCheck(r, JobId)
    \/ StreamStatic(r)
    \/ StreamLive(r)
    \/ \E sz \in DstSizes : StaticRead(r, sz)
    \/ ReadStep(r)
    \/ CloseDelete(r)
    \/ CloseChan(r)

ServerNext ==
    \/ \E ctx \in Ctxs : ServerStartJob(ctx)
    \/ jobOwner # "none" /\ StartStep
    \/ \E res \in StreamResults : ChildExit(res)
    \/ MonitorStep
    \/ ServerStop("c1")
    \/ \E ctx \in Ctxs, id \in Ids : ServerGetStatus(ctx, id)
    \/ ServerStream("r1")

ServerSpec == Init /\ [][ServerNext]_vars

\* ------------------------------------------------ cgroup root initialization

allVarsButInit == <<jobs, spc, cgroupDir, jobVars, outBuf, readers, newData,
                    procVars, monVars, stopVars, obs, readVars, srvVars,
                    abandoned, delVars, wtodo, mgrVars>>

\* cgroupInitMu.Lock() at the head of ensureCgroupHierarchy
EnsureLock(k) ==
    /\ ipc[k] = "idle"
    /\ initMu = "free"
    /\ initMu' = k
    /\ ipc' = [ipc EXCEPT ![k] = "check"]
    /\ UNCHANGED <<cgroupInitDone, initRuns, lpaasRoot, ires, allVarsButInit>>

\* if cgroupInitDone { return nil }, the deferred Unlock included
EnsureCheck(k) ==
    /\ ipc[k] = "check"
    /\ IF cgroupInitDone
       THEN /\ ipc' = [ipc EXCEPT ![k] = "returned"]
            /\ ires' = [ires EXCEPT ![k] = "nil"]
            /\ initMu' = "free"
            /\ UNCHANGED initRuns
       ELSE /\ ipc' = [ipc EXCEPT ![k] = "mkdir"]
            /\ initRuns' = initRuns + 1
            /\ UNCHANGED <<ires, initMu>>
    /\ UNCHANGED <<cgroupInitDone, lpaasRoot, allVarsButInit>>

\* the failing return of one of the three steps of the body
EnsureFail(k) ==
    /\ ipc[k] \in {"mkdir", "enableRoot", "enableLpaas"}
    /\ ipc' = [ipc EXCEPT ![k] = "returned"]
    /\ ires' = [ires EXCEPT ![k] = "err"]
    /\ initMu' = "free"
    /\ UNCHANGED <<cgroupInitDone, initRuns, lpaasRoot, allVarsButInit>>

\* os.MkdirAll(lpaasCgroupRoot) succeeding
EnsureMkdir(k) ==
    /\ ipc[k] = "mkdir"
    /\ lpaasRoot' = IF lpaasRoot = "none" THEN "made" ELSE lpaasRoot
    /\ ipc' = [ipc EXCEPT ![k] = "enableRoot"]
    /\ UNCHANGED <<initMu, cgroupInitDone, initRuns, ires, allVarsButInit>>

\* enableControllers(cgroupRootPath) succeeding
EnsureEnableRoot(k) ==
    /\ ipc[k] = "enableRoot"
    /\ ipc' = [ipc EXCEPT ![k] = "enableLpaas"]
    /\ UNCHANGED <<initMu, cgroupInitDone, initRuns, lpaasRoot, ires,
                   allVarsButInit>>

\* enableControllers(lpaasCgroupRoot) succeeding; cgroupInitDone = true
EnsureDone(k) ==
    /\ ipc[k] = "enableLpaas"
    /\ lpaasRoot' = "enabled"
    /\ cgroupInitDone' = TRUE
    /\ ipc' = [ipc EXCEPT ![k] = "returned"]
    /\ ires' = [ires EXCEPT ![k] = "nil"]
    /\ initMu' = "free"
    /\ UNCHANGED <<initRuns, allVarsButInit>>

ensureCgroupHierarchy(k) ==
    \/ EnsureLock(k)
    \/ EnsureCheck(k)
    \/ EnsureMkdir(k)
    \/ EnsureEnableRoot(k)
    \/ EnsureDone(k)
    \/ EnsureFail(k)

InitNext == \E k \in Constructions : ensureCgroupHierarchy(k)

InitSpec == Init /\ [][InitNext]_vars

\* ------------------------------------------- the StreamOutput handler

\* the client of a stream goes away: stream.Context() is cancelled while
\* the handler holds a registered reader and the job is Running
StreamAbandon(r) ==
    /\ r \in readers
    /\ r \notin abandoned
    /\ status = running
    /\ abandoned' = abandoned \cup {r}
    /\ UNCHANGED <<jobs, spc, cgroupDir, jobVars, outBuf, readers, newData,
                   procVars, monVars, stopVars, obs, readVars, srvVars,
                   initVars, delVars, wtodo, mgrVars>>

\* the handler returns, and its deferred reader.Close() runs, after a Read
\* that returned io.EOF or whose chunk stream.Send could not deliver
\* (README.md:211-227); a Read with the 4096-byte buffer returns a chunk or
\* io.EOF, so a reader that has delivered nothing has not yet been read
HandlerReturn(r) ==
    /\ eof[r] \/ (r \in abandoned /\ got[r] # <<>>)
    /\ CloseDelete(r)

\* the loop of the handler calls reader.Read(buf) (README.md:213-215)
HandlerRead(r) ==
    /\ r \in readers
    /\ r \notin abandoned \/ got[r] = <<>>
    /\ \E sz \in 1..MaxDst : ReadCall(r, sz)

StreamOutput(r) ==
    \/ rpc[r] = "none" /\ JobId \in jobs /\ StreamCheck(r, JobId)
    \/ StreamStatic(r)
    \/ StreamLive(r)
    \/ \E sz \in 1..MaxDst : StaticRead(r, sz)
    \/ StaticClose(r)
    \/ HandlerRead(r)
    \/ ReadSelectData(r)
    \/ ReadSelectDone(r)
    \/ HandlerReturn(r)
    \/ CloseChan(r)

HandlerNext ==
    \/ StartStep
    \/ WriteStep
    \/ \E res \in StreamResults : ChildExit(res)
    \/ MonitorStep
    \/ StreamOutput("r1")
    \/ StreamAbandon("r1")

\* the handler, the monitor and the writer's notification run on; nothing
\* makes the child write or exit
HandlerFairness ==
    /\ WF_vars(MonitorStep)
    /\ WF_vars(WriterNotify)
    /\ WF_vars(StreamLive("r1") \/ StreamStatic("r1"))
    /\ WF_vars(HandlerRead("r1"))
    /\ WF_vars(ReadSelectData("r1"))
    /\ WF_vars(ReadSelectDone("r1"))
    /\ WF_vars(HandlerReturn("r1"))
    /\ WF_vars(CloseChan("r1"))

HandlerSpec == Init /\ [][HandlerNext]_vars /\ HandlerFairness

\* ------------------------------------------------------ cgroupv2.delete

allVarsButDel == <<jobs, spc, cgroupDir, jobVars, outBuf, readers, newData,
                   procVars, monVars, stopVars, obs, readVars, srvVars,
                   initVars, abandoned, wtodo, mgrVars>>

\* the monitor calls j.cgroup.delete() (job.go:145); the child has been
\* reaped, descendants of it may still live in the cgroup
DeleteCall ==
    /\ mpc = "delete"
    /\ dpc = "idle"
    /\ dpc' = "write"
    /\ \E n \in 0..MaxProcs : cgProcs' = n
    /\ UNCHANGED <<dres, killed, attempts, allVarsButDel>>

\* the directory is gone before delete gets to it (the case the comment of
\* delete provides for, cgroup.go:335-337)
DirVanish ==
    /\ dpc \in {"write", "poll"}
    /\ cgroupDir = "exists"
    /\ cgProcs = 0
    /\ cgroupDir' = "deleted"
    /\ UNCHANGED <<jobs, spc, jobVars, outBuf, readers, newData, procVars,
                   monVars, stopVars, obs, readVars, srvVars, initVars,
                   abandoned, delVars, wtodo, mgrVars>>

\* os.WriteFile(killPath, "1\n") succeeding, or failing with a missing
\* file, which delete lets pass (cgroup.go:342)
DeleteWriteKill ==
    /\ dpc = "write"
    /\ killed' = (cgroupDir = "exists")
    /\ dpc' = "poll"
    /\ UNCHANGED <<dres, cgProcs, attempts, allVarsButDel>>

\* os.WriteFile failing with another error: delete returns it
\* (cgroup.go:342-344)
DeleteWriteFail ==
    /\ dpc = "write"
    /\ cgroupDir = "exists"
    /\ dres' = "writeErr"
    /\ dpc' = "returned"
    /\ UNCHANGED <<killed, cgProcs, attempts, allVarsButDel>>

\* the kernel acting on cgroup.kill: a process of the cgroup dies
KernelKill ==
    /\ killed
    /\ cgProcs > 0
    /\ cgProcs' = cgProcs - 1
    /\ UNCHANGED <<dpc, dres, killed, attempts, allVarsButDel>>

\* a tick whose os.RemoveAll error is not looked at
DeleteTickIgnoreErr ==
    /\ dpc = "poll"
    /\ attempts < MaxAttempts
    /\ attempts' = attempts + 1
    /\ cgroupDir' = IF cgProcs = 0 THEN "deleted" ELSE cgroupDir
    /\ dres' = "nil"
    /\ dpc' = "returned"
    /\ UNCHANGED <<jobs, spc, jobVars, outBuf, readers, newData, procVars,
                   monVars, stopVars, obs, readVars, srvVars, initVars,
                   abandoned, killed, cgProcs, wtodo, mgrVars>>

\* case <-tick.C (cgroup.go:354-358): os.RemoveAll(cg.Path); nil or a
\* missing directory ends delete with nil, any other error goes round the
\* loop.  The directory of a cgroup that still has processes cannot be
\* removed.
DeleteTick ==
    /\ dpc = "poll"
    /\ attempts < MaxAttempts
    /\ attempts' = attempts + 1
    /\ \E ok \in BOOLEAN :
         /\ ok => (cgProcs = 0 \/ cgroupDir = "deleted")
         /\ cgroupDir' = IF ok THEN "deleted" ELSE cgroupDir
         /\ dres' = IF ok \/ cgroupDir = "deleted" THEN "nil" ELSE dres
         /\ dpc' = IF ok \/ cgroupDir = "deleted" THEN "returned" ELSE dpc
    /\ UNCHANGED <<jobs, spc, jobVars, outBuf, readers, newData, procVars,
                   monVars, stopVars, obs, readVars, srvVars, initVars,
                   abandoned, killed, cgProcs, wtodo, mgrVars>>

\* case <-timeout (cgroup.go:352-353)
DeleteTimeout ==
    /\ dpc = "poll"
    /\ dres' = "timeout"
    /\ dpc' = "returned"
    /\ UNCHANGED <<killed, cgProcs, attempts, allVarsButDel>>

\* job.go:145-147 with the outcome that delete has returned
DeleteReturn ==
    /\ dpc = "returned"
    /\ MonitorDelete
    /\ cleanupErr' = (dres # "nil")

delete ==
    \/ DeleteCall
    \/ DeleteWriteKill
    \/ DeleteWriteFail
    \/ DeleteTick
    \/ DeleteTimeout
    \/ DeleteReturn

DeleteNext ==
    \/ StartStep
    \/ \E res \in StreamResults : ChildExit(res)
    \/ MonitorWait
    \/ MonitorRecord
    \/ delete
    \/ KernelKill
    \/ DirVanish
    \/ MonitorClose
    \/ MonitorUnlock

DeleteSpec == Init /\ [][DeleteNext]_vars

\* ------------------------------------- the notification pass, step by step

\* a pass that goes over the readers without taking job.mu
WriterLockNone ==
    /\ wpc = "notify"
    /\ wpc' = "sending"
    /\ wtodo' = readers
    /\ UNCHANGED <<jobs, spc, cgroupDir, jobVars, outBuf, readers, newData,
                   child, waitErr, nWrites, monVars, stopVars, obs, readVars,
                   srvVars, initVars, abandoned, delVars, mgrVars>>

\* w.job.mu.Lock() and the start of the range over w.job.readers
\* (job.go:217-218)
WriterLock ==
    /\ wpc = "notify"
    /\ mu = "free"
    /\ mu' = "writer"
    /\ wpc' = "sending"
    /\ wtodo' = readers
    /\ UNCHANGED <<jobs, spc, cgroupDir, status, exitErr, exitCode,
                   cleanupErr, cancelled, done, outBuf, readers, newData,
                   child, waitErr, nWrites, monVars, stopVars, obs, readVars,
                   srvVars, initVars, abandoned, delVars, mgrVars>>

\* one iteration of the range: the non-blocking send to the channel of r
\* (job.go:219-222); the map is ranged over in any order
WriterSend(r) ==
    /\ wpc = "sending"
    /\ r \in wtodo
    /\ newData' = [newData EXCEPT ![r] = notify(@)]
    /\ wtodo' = wtodo \ {r}
    /\ UNCHANGED <<jobs, spc, cgroupDir, jobVars, outBuf, readers, procVars,
                   monVars, stopVars, obs, readVars, srvVars, initVars,
                   abandoned, delVars, mgrVars>>

\* the range is over: w.job.mu.Unlock() (job.go:224)
WriterUnlock ==
    /\ wpc = "sending"
    /\ wtodo = {}
    /\ mu' = IF mu = "writer" THEN "free" ELSE mu
    /\ wpc' = "idle"
    /\ UNCHANGED <<jobs, spc, cgroupDir, status, exitErr, exitCode,
                   cleanupErr, cancelled, done, outBuf, readers, newData,
                   child, waitErr, nWrites, monVars, stopVars, obs, readVars,
                   srvVars, initVars, abandoned, delVars, wtodo, mgrVars>>

WritePass ==
    \/ \E k \in ChunkSizes : ChildWrite(Chunk(outBuf.n, k))
    \/ WriterLock
    \/ \E r \in Readers : WriterSend(r)
    \/ WriterUnlock

\* the fan-out with the notification pass taken apart: Close's second half
\* runs outside job.mu and may fall between two sends
NotifyNext ==
    \/ StartStep
    \/ WritePass
    \/ \E res \in StreamResults : ChildExit(res)
    \/ MonitorStep
    \/ \E r \in Readers : StreamStep(r)

NotifySpec == Init /\ [][NotifyNext]_vars

\* ------------------------------------------- the managers of the server

allVarsButMgr == <<jobs, spc, cgroupDir, jobVars, outBuf, readers, newData,
                   procVars, monVars, stopVars, obs, readVars, srvVars,
                   initVars, abandoned, delVars, wtodo>>

\* a StartJob request of owner o arrives and calls getOrCreateManager
\* (README.md:116-122)
StartRequest(q, o) ==
    /\ qpc[q] = "idle"
    /\ qown' = [qown EXCEPT ![q] = o]
    /\ qpc' = [qpc EXCEPT ![q] = "lock"]
    /\ UNCHANGED <<smu, qmgr, mgrOf, mgrMade, allVarsButMgr>>

\* a StopJob, GetStatus or StreamOutput request of owner o: its
\* managerForOwner under s.mu.RLock (README.md:107-112) gives the owner's
\* manager or none, and makes none
LookupRequest(q, o) ==
    /\ qpc[q] = "idle"
    /\ smu = "free"
    /\ qown' = [qown EXCEPT ![q] = o]
    /\ qmgr' = [qmgr EXCEPT ![q] = mgrOf[o]]
    /\ qpc' = [qpc EXCEPT ![q] = "looked"]
    /\ UNCHANGED <<smu, mgrOf, mgrMade, allVarsButMgr>>

\* a getOrCreateManager that does not take s.mu
GetLockNone(q) ==
    /\ qpc[q] = "lock"
    /\ qpc' = [qpc EXCEPT ![q] = "check"]
    /\ UNCHANGED <<smu, qown, qmgr, mgrOf, mgrMade, allVarsButMgr>>

\* getOrCreateManager: s.mu.Lock() (README.md:91)
GetLock(q) ==
    /\ qpc[q] = "lock"
    /\ smu = "free"
    /\ smu' = q
    /\ qpc' = [qpc EXCEPT ![q] = "check"]
    /\ UNCHANGED <<qown, qmgr, mgrOf, mgrMade, allVarsButMgr>>

\* getOrCreateManager: the owner's manager is there and is returned, with
\* the deferred Unlock, or it has to be made (README.md:94-96)
GetCheck(q) ==
    /\ qpc[q] = "check"
    /\ IF mgrOf[qown[q]] # 0
         THEN /\ qmgr' = [qmgr EXCEPT ![q] = mgrOf[qown[q]]]
              /\ smu' = "free"
              /\ qpc' = [qpc EXCEPT ![q] = "start"]
         ELSE /\ qpc' = [qpc EXCEPT ![q] = "new"]
              /\ UNCHANGED <<smu, qmgr>>
    /\ UNCHANGED <<qown, mgrOf, mgrMade, allVarsButMgr>>

\* getOrCreateManager: NewJobManager() (jobmanager.go:24-28, which returns
\* no error), the new manager is stored and returned (README.md:98-104)
GetNew(q) ==
    /\ qpc[q] = "new"
    /\ mgrMade' = [mgrMade EXCEPT ![qown[q]] = @ + 1]
    /\ mgrOf' = [mgrOf EXCEPT ![qown[q]] = mgrMade[qown[q]] + 1]
    /\ qmgr' = [qmgr EXCEPT ![q] = mgrMade[qown[q]] + 1]
    /\ smu' = "free"
    /\ qpc' = [qpc EXCEPT ![q] = "start"]
    /\ UNCHANGED <<qown, allVarsButMgr>>

\* mgr.StartJob on the manager that was returned (README.md:127-132): the
\* job is in that manager's registry, or the start fails
ManagerStartJob(q) ==
    /\ qpc[q] = "start"
    /\ \E ok \in BOOLEAN :
         qpc' = [qpc EXCEPT ![q] = IF ok THEN "started" ELSE "failed"]
    /\ UNCHANGED <<smu, qown, qmgr, mgrOf, mgrMade, allVarsButMgr>>

getOrCreateManager(q) ==
    \/ GetLock(q)
    \/ GetCheck(q)
    \/ GetNew(q)

ManagerNext ==
    \E q \in Requests :
        \/ \E o \in Owners : StartRequest(q, o)
        \/ \E o \in Owners : LookupRequest(q, o)
        \/ getOrCreateManager(q)
        \/ ManagerStartJob(q)

ManagerSpec == Init /\ [][ManagerNext]_vars

\* ------------------------------------------------------------ claims

IsPrefix(a, b) == Len(a) <= Len(b) /\ a = SubSeq(b, 1, Len(a))

\* C1: every reader that has reached end-of-stream, whenever it attached and
\* whether it is a live reader or a reader of the snapshot, has received
\* the whole output of the job from its first byte; so two such readers
\* hold the same bytes.
C1_FanOutEquality ==
    /\ \A r \in Readers : eof[r] => got[r] = outBuf.b
    /\ \A r, q \in Readers : eof[r] /\ eof[q] => got[r] = got[q]

\* a live reader and a reader attached after the end have both read a
\* two-chunk output to end-of-stream
C1_Witness ==
    /\ rkind["r1"] = "live" /\ eof["r1"]
    /\ rkind["r2"] = "static" /\ eof["r2"]
    /\ nWrites = 2
    /\ got["r2"] = outBuf.b

\* C2: what one reader has been given, over all its Read calls, is exactly
\* the first offset bytes of the log, in order: nothing twice, nothing
\* skipped, whatever the sizes of p and however appends interleave.
C2_InOrderOnce ==
    \A r \in Readers :
        rkind[r] # "none" =>
            /\ Len(got[r]) = offset[r]
            /\ offset[r] <= Len(outBuf.b)
            /\ got[r] = SubSeq(outBuf.b, 1, offset[r])

\* a live reader between two Reads: it has taken less than was there, and
\* then the rest after a further append
C2_Witness ==
    \E r \in Readers :
        /\ rkind[r] = "live"
        /\ rpc[r] = "idle"
        /\ Len(got[r]) = 2
        /\ outBuf.n = 2
        /\ nWrites = 2

\* C3: a live reader that keeps calling Read reaches end-of-stream once the
\* latch has fired, and Read returns io.EOF only when the latch has fired
\* and the reader has consumed every appended byte.
C3_EventualEOF ==
    /\ (rkind["r1"] = "live" /\ done) ~> eof["r1"]
    /\ [](\A r \in Readers :
             rkind[r] = "live" /\ eof[r] => done /\ offset[r] = outBuf.n)

\* end-of-stream reached after two appends while a notification is still
\* unreceived in the channel
C3_Witness ==
    /\ rkind["r1"] = "live"
    /\ eof["r1"]
    /\ outBuf.n >= 2
    /\ nWrites = 2
    /\ newData["r1"].cnt = 1

\* C4: the status only ever goes from Unknown to Running or from Running to
\* one of Exited, Failed, Stopped, and a terminal status that Status has
\* reported never changes afterwards.
C4_StatusOrder ==
    [][/\ status' # status =>
            \/ status = unknown /\ status' = running
            \/ status = running /\ status' \in Terminal
       /\ (obs.found /\ obs.has /\ obs.st = String(status)) =>
            status' = status]_vars

C6_StopAfterLatch ==
    \A c \in Stoppers :
        (cpc[c] = "set" \/ cres[c] = "ok") =>
            /\ cancelled
            /\ done
            /\ child = "exited"
            /\ mpc \in {"unlock", "finished"}
            /\ status \in Terminal
            /\ exitErr = waitErr
            /\ cgroupDir = "deleted" \/ cleanupErr

\* job.stop has just returned nil to StopJob
C6_Witness ==
    \E c \in Stoppers : cpc[c] = "set" /\ cleanupErr

\* C7: once the child is reaped the monitor records a terminal status and
\* fires the latch, whether or not the cgroup deletion succeeds; a StopJob
\* waiting for the latch returns and a parked Read returns.
C7_LatchFires ==
    /\ (child = "exited") ~> (done /\ status \in Terminal /\ mpc = "finished")
    /\ (child = "exited" /\ cpc["c1"] = "wait") ~> (cres["c1"] = "ok")
    /\ (child = "exited" /\ rpc["r1"] = "select") ~> (rpc["r1"] = "idle")

\* the cgroup deletion failed, and still the StopJob caller has returned
\* and the reader has got its end-of-stream
C7_Witness ==
    /\ done
    /\ cleanupErr
    /\ cres["c1"] = "ok"
    /\ rkind["r1"] = "live" /\ eof["r1"]

\* the table of terminal statuses
TableStatus(fired, err) ==
    CASE ~fired /\ err.kind = "nil" -> exited
      [] fired /\ err.kind = "nil" -> stopped
      [] ~fired /\ err.kind # "nil" -> failed
      [] fired /\ err.kind # "nil" -> stopped

\* C8: the status the monitor sets is the one the table gives for the reap
\* error and for whether the cancellation has fired when the monitor looks,
\* and it stays so while the monitor holds the mutex.
C8_MonitorTable ==
    [][/\ (mpc = "lock" /\ mpc' = "delete") =>
            status' = TableStatus(cancelled, waitErr)
       /\ mu' = "monitor" => status' = TableStatus(monCancel', exitErr')]_vars

\* the monitor holds the mutex having set Stopped for a nil reap error
C8_Witness ==
    /\ mu = "monitor"
    /\ monCancel
    /\ exitErr = NilErr
    /\ status = stopped

C10_CodeIffTerminal ==
    /\ obs.has <=> obs.st \in {"Exited", "Failed", "Stopped"}
    /\ \A id \in Ids :
         Status(id).has <=> Status(id).st \in {"Exited", "Failed", "Stopped"}

\* Status has answered Running, without an exit code
C10_Witness ==
    /\ obs.found
    /\ obs.st = "Running"
    /\ ~obs.has

\* C11: once start has succeeded the job's status is never Unknown again:
\* a job that is in the registry has a status other than Unknown, and Status
\* never answers "Unknown" for a job it has found.
C11_NeverUnknown ==
    /\ spc \in {"started", "returned"} => status # unknown
    /\ JobId \in jobs => status # unknown /\ Status(JobId).st # "Unknown"
    /\ obs.found => obs.st # "Unknown"

\* Status has answered for the job right after StartJob returned its id,
\* before the child did anything
C11_Witness ==
    /\ spc = "returned"
    /\ JobId \in jobs
    /\ obs.found
    /\ obs.id = JobId
    /\ child = "running"
    /\ nWrites = 0

\* a StopJob request of an authenticated owner goes through the routing
StopRouted(c) == cpc[c] = "idle" /\ cpc'[c] # "idle" /\ cown'[c] \in Owners

\* the id asked for is in the registry of the asking owner's manager
StopRegistered(c) == cown'[c] = jobOwner /\ cid'[c] \in jobs

\* C12 as stated: a stop request of principal P for id X succeeds if and
\* only if P's registry contains X, and is answered NotFound otherwise.
C12_StopIffRegistered ==
    [][\A c \in Stoppers :
         /\ StopRouted(c) =>
              (scode'[c] = "NotFound" <=> ~StopRegistered(c))
         /\ (cown'[c] \in Owners /\ scode[c] = "none") =>
              scode'[c] \in {"none", "OK", "NotFound"}]_vars

\* C12, amended: a stop request of principal P for id X is answered
\* NotFound if and only if P's registry does not contain X.  When it does,
\* the request reaches job.stop: it is answered OK if the job was Running
\* at job.stop's check, and Internal ("not running") if it was not.
C12_StopRouting ==
    [][\A c \in Stoppers :
         /\ StopRouted(c) =>
              /\ scode'[c] = "NotFound" <=> ~StopRegistered(c)
              /\ StopRegistered(c) => scode'[c] = "none" /\ cpc'[c] = "routed"
         /\ (cpc[c] = "check" /\ cpc'[c] # "check") =>
              /\ status = running <=> cpc'[c] = "cancel"
              /\ status # running <=> cres'[c] = "not running"
         /\ (cown'[c] \in Owners /\ scode[c] = "none" /\ scode'[c] # "none"
               /\ ~StopRouted(c)) =>
              /\ scode'[c] = "OK" <=> cres[c] = "ok"
              /\ scode'[c] = "Internal" <=> cres[c] = "not running"
              /\ scode'[c] \in {"OK", "Internal"}]_vars

\* the owner's stop request for its own job, which had ended by itself, was
\* answered Internal
C12_Witness ==
    /\ jobOwner = "A"
    /\ cown["c1"] = "A"
    /\ cid["c1"] = JobId
    /\ cres["c1"] = "not running"
    /\ scode["c1"] = "Internal"
    /\ ~cancelled

\* the job, its cgroup, its child, its monitor and its manager's registry
JobState ==
    <<jobs, spc, cgroupDir, jobVars, outBuf, readers, newData, procVars,
      monVars>>

\* C13: a stop, status or stream request that a principal other than the
\* job's owner makes with the job's id is answered NotFound, and it changes
\* nothing of the job: no cancellation, no status read, no reader attached.
C13_Isolation ==
    [][/\ \A c \in Stoppers :
            (StopRouted(c) /\ cown'[c] # jobOwner /\ cid'[c] = JobId) =>
                /\ scode'[c] = "NotFound"
                /\ cpc'[c] = "returned"
                /\ UNCHANGED <<JobState, cres, obs, readVars>>
       /\ (resp' # resp /\ resp'.op \in {"status", "stream"}
             /\ resp'.ctx \in Owners /\ resp'.ctx # jobOwner
             /\ resp'.id = JobId) =>
                /\ resp'.code = "NotFound"
                /\ UNCHANGED <<JobState, stopVars, obs, readVars>>]_vars

\* the other principal has a manager of its own, the job is registered and
\* running, and its stop request and its stream request for the job's id
\* have both been answered NotFound
C13_Witness ==
    /\ jobOwner = "A"
    /\ JobId \in jobs
    /\ status = running
    /\ "B" \in managers
    /\ cown["c1"] = "B" /\ cid["c1"] = JobId /\ scode["c1"] = "NotFound"
    /\ resp = [op |-> "stream", ctx |-> "B", id |-> JobId,
               code |-> "NotFound"]
    /\ ~cancelled

\* C14: StopJob, Status and StreamJob of the JobManager, called with an id
\* that is not in the registry, return the not-found error, and the registry
\* and the job stay as they were: nothing is cancelled, no reader is made.
C14_UnknownId ==
    [][/\ \A c \in Stoppers :
            (cpc[c] = "idle" /\ cpc'[c] # "idle" /\ cid'[c] \notin jobs) =>
                /\ cres'[c] = "not found"
                /\ cpc'[c] = "returned"
                /\ UNCHANGED <<JobState, obs, readVars>>
       /\ (obs' # obs /\ obs'.id \notin jobs) =>
                /\ ~obs'.found
                /\ ~obs'.has
                /\ UNCHANGED <<JobState, stopVars, readVars>>
       /\ \A r \in Readers :
            (rpc'[r] # rpc[r] /\ rpc[r] = "none" /\ rid'[r] \notin jobs) =>
                /\ rpc'[r] = "notfound"
                /\ UNCHANGED <<JobState, stopVars, obs, rkind, rdone, offset,
                               snap, got, eof>>]_vars

\* with the job registered and running, StopJob, Status and StreamJob have
\* each been called with an id that is not in the registry
C14_Witness ==
    /\ JobId \in jobs
    /\ status = running
    /\ \E c \in Stoppers : cid[c] = MissingId /\ cres[c] = "not found"
    /\ obs.id = MissingId /\ ~obs.found
    /\ rid["r1"] = MissingId /\ rpc["r1"] = "notfound"
    /\ ~cancelled
    /\ readers = {}

\* job.stop finds the job not Running and returns: nothing is cancelled,
\* nothing is waited for, the job is as it was
StopNotRunning(c) ==
    (cpc[c] = "check" /\ cpc'[c] # "check" /\ status # running) =>
        /\ cres'[c] = "not running"
        /\ cpc'[c] = "returned"
        /\ UNCHANGED <<JobState, obs, readVars>>

\* C15: a stop of a job that is not Running fails with "not running",
\* without cancelling, without blocking and without changing the job's
\* status, exit code or errors, and the transport answers it with the
\* precondition code, not with Internal or NotFound.
C15_StopNotRunning ==
    [][\A c \in Stoppers :
         /\ StopNotRunning(c)
         /\ (cres[c] = "not running" /\ scode[c] = "none"
               /\ scode'[c] # "none") =>
              scode'[c] = "FailedPrecondition"]_vars

\* C16: whenever Status has reported Exited, Failed or Stopped, the job's
\* cgroup directory is gone or the job carries a cleanup error; Status never
\* sees a terminal status while the monitor has yet to try the deletion.
C16_Cleanup ==
    /\ (obs.found /\ obs.st \in {"Exited", "Failed", "Stopped"}) =>
         /\ cgroupDir = "deleted" \/ cleanupErr
         /\ mpc \notin {"wait", "lock", "delete"}
    /\ (status \in Terminal /\ mu = "free") =>
         /\ cgroupDir = "deleted" \/ cleanupErr
         /\ mpc = "finished"

\* Status has reported Failed for a job whose cgroup directory was removed
C16_Witness ==
    /\ obs.found
    /\ obs.st = "Failed"
    /\ cgroupDir = "deleted"
    /\ ~cleanupErr
    /\ mpc = "finished"

\* C17: a failed cgroup deletion is recorded as the cleanup error and leaves
\* the status, the exit code and the reap error as the monitor set them;
\* the error Status returns for a job is the reap error joined with the
\* cleanup error: nil exactly when both are nil, and holding each of them
\* that is not nil.
C17_ErrorsJoined ==
    [][/\ (mpc = "delete" /\ mpc' # "delete") =>
            /\ cleanupErr' <=> cgroupDir' # "deleted"
            /\ UNCHANGED <<status, exitCode, exitErr>>
       /\ (obs' # obs /\ obs'.found) =>
            /\ obs'.err = <<>> <=> (exitErr = NilErr /\ ~cleanupErr)
            /\ exitErr # NilErr => obs'.err[1] = exitErr
            /\ cleanupErr => obs'.err[Len(obs'.err)] = CleanupErr
            /\ Len(obs'.err) =
                 (IF exitErr # NilErr THEN 1 ELSE 0)
                   + (IF cleanupErr THEN 1 ELSE 0)]_vars

\* Status has answered Failed with exit code 7 and with both the reap error
\* and the cleanup error
C17_Witness ==
    /\ obs.found
    /\ obs.st = "Failed"
    /\ obs.code = 7
    /\ obs.err = <<ExitError(7), CleanupErr>>
    /\ cgroupDir = "exists"

\* C18: when job.start fails, the cgroup that newJob made is destroyed
\* before StartJob returns the error: no directory is left behind.
C18_SpawnFailCleansUp ==
    [][(spc = "created" /\ spc' = "failed") => cgroupDir' # "exists"]_vars

\* C19: when StartJob has failed, in newJob or in job.start, it returned no
\* id, the registry is as it was, the status is still Unknown, there is no
\* child, no monitor, and the latch does not fire; the job is in the
\* registry only once the child was spawned and status set to running.
C19_FailedStartFrame ==
    /\ spc = "failed" =>
         /\ jobs = {}
         /\ status = unknown
         /\ child = "none"
         /\ mpc = "none"
         /\ ~done
         /\ ~cancelled
         /\ exitErr = NilErr /\ ~cleanupErr
    /\ JobId \in jobs =>
         /\ spc = "returned"
         /\ child # "none"
         /\ mpc # "none"
         /\ status # unknown

\* job.start has failed, and a StopJob and a Status for the id that was
\* minted have both found nothing
C19_Witness ==
    /\ spc = "failed"
    /\ cgroupDir = "exists"
    /\ \E c \in Stoppers : cid[c] = JobId /\ cres[c] = "not found"
    /\ obs.id = JobId /\ ~obs.found

\* C21: an append never waits for a reader: the notification step of Write
\* can always be taken, whatever the readers' channels hold; a notification
\* for a full channel is dropped, so no channel ever holds more than one.
C21_AppendNeverBlocks ==
    /\ \A r \in Readers : newData[r].cnt \in {0, 1}
    /\ wpc = "notify" => ENABLED WriterNotify

\* two appends have completed while a registered reader never read and
\* its channel stayed full
C21_Witness ==
    \E r \in readers :
        /\ wpc = "idle"
        /\ nWrites = 2
        /\ newData[r].cnt = 1
        /\ offset[r] = 0
        /\ rpc[r] = "idle"
        /\ ~done

\* C22: the latch fires after the last byte was appended: once the status
\* is terminal or the latch has fired, no Write is in progress and the log
\* never changes again, so the snapshot a late reader gets is the whole
\* output.
C22_LatchAfterLastByte ==
    [][/\ (done \/ status \in Terminal) =>
            /\ wpc = "idle"
            /\ child = "exited"
            /\ outBuf' = outBuf
       /\ \A r \in Readers : rkind[r] = "static" => snap[r] = bufBytes(outBuf)]_vars

\* a reader attached after the latch holds a snapshot of both appends
C22_Witness ==
    \E r \in Readers :
        /\ done
        /\ rkind[r] = "static"
        /\ Len(snap[r]) = 2
        /\ nWrites = 2
        /\ offset[r] = 0

\* the select of Read has a ready case that brings Read back to the same
\* select with nothing changed: the loop runs without parking or returning
Spins(r) ==
    /\ rpc[r] = "select"
    /\ ENABLED ((ReadSelectData(r) \/ ReadSelectDone(r)) /\ vars' = vars)

\* C23: Read never busy-loops: a Read that finds nothing to copy parks
\* until a notification or the latch, and a wake-up ends in data, in
\* end-of-stream or in parking again; in no state, not even after Close,
\* does the loop of Read run on without waiting and without returning.
C23_NoBusyLoop ==
    \A r \in Readers :
        /\ ~Spins(r)
        /\ (rpc[r] = "select" /\ ~done /\ newData[r].cnt = 0) =>
              ~ENABLED (ReadSelectData(r) \/ ReadSelectDone(r))

C25_CursorInvariant ==
    [][\A r \in Readers :
         /\ rkind[r] # "none" =>
              /\ 0 <= offset[r]
              /\ offset[r] <= bufLen(outBuf)
              /\ offset'[r] >= offset[r]
              /\ offset'[r] # offset[r] =>
                   /\ rpc[r] \in {"idle", "select"}
                   /\ rpc'[r] = "idle"
                   /\ Len(got'[r]) = Len(got[r]) + (offset'[r] - offset[r])
         /\ rkind[r] = "none" => offset[r] = 0 /\ offset'[r] = 0]_vars

\* a live reader has taken one byte of two and is between two Reads
C25_Witness ==
    \E r \in Readers :
        /\ rkind[r] = "live"
        /\ rpc[r] = "idle"
        /\ offset[r] = 1
        /\ bufLen(outBuf) = 2
        /\ ~eof[r]
        /\ r \in readers


\* C26: the initialization of the cgroup root is a one-shot latch with a
\* recorded outcome: whatever the number of constructions, the body of the
\* initialization is entered at most once, and every construction that has
\* returned reports the outcome of that one run, so that no two of them
\* report different outcomes.
C26_InitOneShot ==
    /\ initRuns <= 1
    /\ \A k, j \in Constructions :
         (ipc[k] = "returned" /\ ipc[j] = "returned") => ires[k] = ires[j]

\* a failed initialization followed by a construction that ran the body anew
C26_Retried ==
    \E k, j \in Constructions :
        /\ ires[k] = "err"
        /\ ires[j] = "nil"
        /\ initRuns = 2


\* C27: a stream that its caller abandons while the job is Running leads to
\* the reader of that stream being taken out of the job's reader set, with
\* no assumption that the job writes again or terminates.
C27_AbandonUnregisters ==
    \A r \in Readers : (r \in abandoned /\ r \in readers) ~> (r \notin readers)

\* an abandoned stream whose Read has come back is unregistered
C27_UnregisteredAfterRead ==
    \A r \in Readers :
        (r \in abandoned /\ r \in readers /\ rpc[r] = "idle" /\ got[r] # <<>>)
            ~> (r \notin readers)


\* C28: the registry only grows: no step takes an id out of it, and for an
\* id that it holds, every later get-status and stream-output of the owner
\* is resolved: the transport answers OK, Status finds the job and
\* StreamJob does not report it missing.
C28_RegistryOnlyGrows ==
    [][/\ jobs \subseteq jobs'
       /\ \A id \in jobs :
            /\ (/\ resp' # resp
                /\ resp'.op \in {"status", "stream"}
                /\ resp'.ctx = jobOwner
                /\ resp'.id = id) => resp'.code = "OK"
            /\ (obs' # obs /\ obs'.id = id) => obs'.found
            /\ \A r \in Readers :
                 (rpc'[r] # rpc[r] /\ rid'[r] = id) => rpc'[r] # "notfound"
      ]_vars

\* the job has ended and has been cleaned up; Status has found it in its
\* terminal state and a stream request for it has been given a reader
C28_Witness ==
    /\ JobId \in jobs
    /\ mpc = "finished"
    /\ status \in Terminal
    /\ obs.id = JobId /\ obs.found /\ obs.has
    /\ resp.op = "stream" /\ resp.ctx = jobOwner /\ resp.code = "OK"
    /\ rkind["r1"] = "static"


\* C29: a request whose context carries no principal is answered
\* Unauthenticated by start-job, stop-job, get-status and stream-output
\* alike, and it changes nothing: no manager is looked up or made for it,
\* no job is started, and no job, caller result, status observation or
\* reader is touched.
C29_NoPrincipalRejected ==
    [][/\ (resp' # resp /\ resp'.ctx = NoCert) =>
            /\ resp'.code = "Unauthenticated"
            /\ UNCHANGED <<JobState, managers, jobOwner, stopVars, obs,
                           readVars>>
       /\ \A c \in Stoppers :
            (cpc[c] = "idle" /\ cpc'[c] # "idle" /\ cown'[c] = NoCert) =>
                /\ scode'[c] = "Unauthenticated"
                /\ cpc'[c] = "returned"
                /\ UNCHANGED <<JobState, managers, jobOwner, cres, obs,
                               readVars>>
       /\ NoCert \notin managers'
       /\ jobOwner' # NoCert
      ]_vars

\* a job of owner A is running; a stop request and then a stream request
\* for it, both without a certificate, have been answered Unauthenticated
C29_Witness ==
    /\ JobId \in jobs
    /\ status = running /\ ~cancelled
    /\ cown["c1"] = NoCert /\ cid["c1"] = JobId
    /\ scode["c1"] = "Unauthenticated"
    /\ resp = [op |-> "stream", ctx |-> NoCert, id |-> JobId,
               code |-> "Unauthenticated"]
    /\ readers = {}


\* C30: delete attempts the removal only once the kill request is written
\* or its file was found missing; an attempt after which the directory is
\* gone ends delete with success and any other attempt goes round the loop;
\* delete returns success only with the directory gone, and when it leaves
\* the poll loop with the directory still there it returns the timeout
\* error.
C30_DeleteContract ==
    [][/\ attempts' # attempts =>
            /\ dpc = "poll"
            /\ killed \/ cgroupDir = "deleted"
            /\ attempts' = attempts + 1
            /\ IF cgroupDir' = "deleted"
                 THEN dpc' = "returned" /\ dres' = "nil"
                 ELSE dpc' = "poll" /\ dres' = "none"
       /\ dres' = "nil" => cgroupDir' = "deleted"
       /\ (dpc = "poll" /\ dpc' = "returned" /\ cgroupDir' = "exists") =>
            dres' = "timeout"
       /\ (mpc = "delete" /\ mpc' # "delete") =>
            cleanupErr' = (dres # "nil")
      ]_vars

\* delete has returned nil at its second attempt: the first one found a
\* process still alive in the cgroup
C30_Witness ==
    /\ dpc = "returned"
    /\ dres = "nil"
    /\ killed
    /\ attempts = 2
    /\ cgroupDir = "deleted"
    /\ mpc = "close"
    /\ ~cleanupErr

\* delete has given up: the kill request is written, the attempts have
\* failed and the timeout error is recorded as the cleanup error
C30_TimedOut ==
    /\ dres = "timeout"
    /\ killed
    /\ attempts = MaxAttempts
    /\ cgroupDir = "exists"
    /\ cleanupErr

\* C31: no lost wakeup: no registered reader is parked in the select of Read
\* with unread data while its channel is empty, the latch is unfired and no
\* append is between its buffer write and its notification pass.
C31_NoLostWakeup ==
    \A r \in readers :
        ~(/\ rpc[r] = "select"
          /\ offset[r] < bufLen(outBuf)
          /\ newData[r].cnt = 0
          /\ ~done
          /\ wpc # "notify")

\* a notification was dropped: the reader is parked, two appends have been
\* notified and one notification is pending
C31_Witness ==
    /\ "r1" \in readers
    /\ rpc["r1"] = "select"
    /\ offset["r1"] = 0
    /\ nWrites = 2
    /\ wpc = "idle"
    /\ newData["r1"].cnt = 1
    /\ ~done

\* what a Read of reader r with len(p) = sz is given by readAt in this state
ReadResult(r, sz) == readAt(outBuf, sz, offset[r])

\* the step is a Read of live reader r that found data: it started with the
\* cursor below the length and delivered or moved something
ReadWithData(r) ==
    /\ rkind[r] = "live"
    /\ rpc[r] \in {"idle", "select"}
    /\ offset[r] < bufLen(outBuf)
    /\ <<offset'[r], got'[r]>> # <<offset[r], got[r]>>

\* C32 as stated: a Read with the cursor below the length does not block,
\* copies n = min(|dst|, length - cursor) bytes of the log from the cursor
\* on, advances the cursor by n, reports no error, and n is never 0.
C32_ReadNeverZero ==
    /\ [](\A r \in Readers : \A sz \in DstSizes :
            (rkind[r] = "live" /\ offset[r] < bufLen(outBuf)) =>
                /\ ReadResult(r, sz).n = Min(sz, bufLen(outBuf) - offset[r])
                /\ ReadResult(r, sz).data =
                     SubSeq(outBuf.b, offset[r] + 1,
                            offset[r] + ReadResult(r, sz).n)
                /\ ~ReadResult(r, sz).eof
                /\ ReadResult(r, sz).n > 0)
    /\ [][\A r \in Readers :
            /\ (rkind[r] = "live" /\ rpc[r] = "idle"
                  /\ offset[r] < bufLen(outBuf)) => rpc'[r] # "select"
            /\ ReadWithData(r) =>
                 /\ rpc'[r] = "idle"
                 /\ ~eof'[r]
                 /\ offset'[r] - offset[r] = Len(got'[r]) - Len(got[r])
                 /\ got'[r] = SubSeq(outBuf.b, 1, offset'[r])]_vars

\* C32, amended: the same, and n is 0 only for an empty destination.
C32_ReadMin ==
    /\ [](\A r \in Readers : \A sz \in DstSizes :
            (rkind[r] = "live" /\ offset[r] < bufLen(outBuf)) =>
                /\ ReadResult(r, sz).n = Min(sz, bufLen(outBuf) - offset[r])
                /\ ReadResult(r, sz).data =
                     SubSeq(outBuf.b, offset[r] + 1,
                            offset[r] + ReadResult(r, sz).n)
                /\ ~ReadResult(r, sz).eof
                /\ (ReadResult(r, sz).n = 0 <=> sz = 0))
    /\ [][\A r \in Readers :
            /\ (rkind[r] = "live" /\ rpc[r] = "idle"
                  /\ offset[r] < bufLen(outBuf)) => rpc'[r] # "select"
            /\ ReadWithData(r) =>
                 /\ rpc'[r] = "idle"
                 /\ ~eof'[r]
                 /\ offset'[r] - offset[r] = Len(got'[r]) - Len(got[r])
                 /\ offset'[r] - offset[r] \in 1..MaxDst
                 /\ got'[r] = SubSeq(outBuf.b, 1, offset'[r])]_vars

\* a Read that found two bytes and had room for one: the reader is between
\* calls with one byte delivered and one left
C32_Witness ==
    \E r \in Readers :
        /\ rkind[r] = "live"
        /\ rpc[r] = "idle"
        /\ r \in readers
        /\ offset[r] = 1
        /\ got[r] = SubSeq(outBuf.b, 1, 1)
        /\ bufLen(outBuf) = 2
        /\ ~eof[r]

\* C33: stream on a job whose status is terminal gives a reader over a
\* snapshot of the whole log, outside the reader set: it delivers exactly the
\* log and then end-of-stream, a Read of it is always possible, and neither
\* the call nor its Close changes the reader set or a channel.  stream on a
\* job whose status is not terminal adds exactly the new reader to the
\* reader set, with cursor 0 and an empty open channel, and touches no other
\* reader.
C33_StreamFrame ==
    /\ [](\A r \in Readers : rkind[r] = "static" =>
            /\ r \notin readers
            /\ status \in Terminal
            /\ snap[r] = bufBytes(outBuf)
            /\ got[r] = SubSeq(snap[r], 1, offset[r])
            /\ eof[r] => got[r] = bufBytes(outBuf)
            /\ rpc[r] \in {"idle", "closed"}
            /\ (rpc[r] = "idle" /\ ~eof[r]) =>
                 \A sz \in 1..MaxDst : ENABLED StaticRead(r, sz))
    /\ [][\A r \in Readers :
            /\ (rkind[r] = "none" /\ rkind'[r] = "static") =>
                 /\ snap'[r] = bufBytes(outBuf)
                 /\ offset'[r] = 0
                 /\ UNCHANGED <<readers, newData, outBuf, jobVars>>
            /\ (rkind[r] = "static" /\ rpc'[r] # rpc[r]) =>
                 UNCHANGED <<readers, newData, outBuf, jobVars>>
            /\ (rkind[r] = "static" /\ eof'[r] /\ ~eof[r]) =>
                 got[r] = bufBytes(outBuf)
            /\ (rkind[r] = "none" /\ rkind'[r] = "live") =>
                 /\ ~rdone[r]
                 /\ r \notin readers
                 /\ readers' = readers \cup {r}
                 /\ offset'[r] = 0
                 /\ newData'[r] = [cnt |-> 0, closed |-> FALSE]
                 /\ \A q \in Readers \ {r} :
                      newData'[q] = newData[q] /\ offset'[q] = offset[q]
                 /\ UNCHANGED <<outBuf, jobVars>>]_vars

\* r1 registered while the job ran and is still registered; r2 asked after
\* the end, has read the two bytes of the log, seen end-of-stream and closed
C33_Witness ==
    /\ rkind["r1"] = "live" /\ readers = {"r1"}
    /\ rkind["r2"] = "static"
    /\ rpc["r2"] = "closed"
    /\ got["r2"] = bufBytes(outBuf)
    /\ bufLen(outBuf) = 2
    /\ status \in Terminal

\* C34: Close of a live reader takes exactly that reader out of the reader
\* set and then closes its channel; the other readers' registration,
\* cursors and channels, the log and the job's fields stay as they are, and
\* a reader that is no longer registered is never notified again.
C34_CloseFrame ==
    [][\A r \in Readers :
         /\ (rkind[r] = "live" /\ rpc[r] = "idle" /\ rpc'[r] = "closing") =>
              /\ r \in readers
              /\ readers' = readers \ {r}
              /\ UNCHANGED <<newData, offset, outBuf, jobVars>>
         /\ (rpc[r] = "closing" /\ rpc'[r] # "closing") =>
              /\ newData'[r].closed
              /\ newData'[r].cnt = newData[r].cnt
              /\ \A q \in Readers \ {r} : newData'[q] = newData[q]
              /\ UNCHANGED <<readers, offset, outBuf, jobVars>>
         /\ (newData'[r].closed /\ ~newData[r].closed) => rpc[r] = "closing"
         /\ (rkind[r] = "live" /\ r \notin readers) =>
              /\ r \notin readers'
              /\ newData'[r].cnt <= newData[r].cnt
      ]_vars

\* r1 has been closed with nothing read; an append made after that has
\* notified r2, which is still registered, and not r1
C34_Witness ==
    /\ rkind["r1"] = "live" /\ rpc["r1"] = "idle"
    /\ newData["r1"] = [cnt |-> 0, closed |-> TRUE]
    /\ offset["r1"] = 0
    /\ readers = {"r2"}
    /\ newData["r2"] = [cnt |-> 1, closed |-> FALSE]
    /\ nWrites = 1 /\ wpc = "idle"
    /\ status = running

\* the order of the monitor's steps (job.go:130-152)
MonitorOrder ==
    {<<"none", "wait">>, <<"wait", "lock">>, <<"lock", "delete">>,
     <<"delete", "close">>, <<"close", "unlock">>, <<"unlock", "finished">>}

\* C35: a job has a monitor exactly from its successful start on, and the
\* monitor's steps come in one order, none twice: cmd.Wait() returns once
\* the child is gone, then error, code and terminal status are recorded,
\* then the cgroup deletion is made, then the latch fires.  The deletion is
\* made by that step only, never by a StopJob caller and never while the
\* status is Running.
C35_MonitorOrder ==
    [][/\ mpc' # mpc => <<mpc, mpc'>> \in MonitorOrder
       /\ (mpc = "none" /\ mpc' # "none") <=>
              (status # running /\ status' = running)
       /\ (mpc = "wait" /\ mpc' # "wait") => child = "exited"
       /\ (exitErr' # exitErr \/ exitCode' # exitCode
             \/ (status = running /\ status' # running)) =>
              /\ mpc = "lock" /\ mpc' = "delete"
              /\ status' \in Terminal
       /\ ((cgroupDir' # cgroupDir /\ cgroupDir' = "deleted")
             \/ cleanupErr' # cleanupErr
             \/ (mpc = "delete" /\ mpc' # "delete")) =>
              /\ mpc = "delete" /\ mpc' = "close"
              /\ status \in Terminal
              /\ ~done
              /\ UNCHANGED stopVars
       /\ done' # done =>
              /\ mpc = "close" /\ mpc' = "unlock"
              /\ done'
      ]_vars

\* the monitor has run to its end for a job that was stopped, with a failed
\* cgroup deletion; both StopJob callers were in job.stop meanwhile
C35_Witness ==
    /\ mpc = "finished"
    /\ done
    /\ cancelled
    /\ cleanupErr /\ cgroupDir = "exists"
    /\ cres["c1"] = "ok"
    /\ cres["c2"] = "ok"

\* C36: the latch is closed by one step only, the monitor's, which finds it
\* open, so it is closed once and never again, whatever the StopJob callers
\* do, and it never reopens; whenever the job mutex is free the latch has
\* fired exactly if the status is terminal.
C36_LatchOnce ==
    /\ [](mu = "free" => (done <=> status \in Terminal))
    /\ [][/\ done => done'
          /\ done' # done => (mpc = "close" /\ mpc' = "unlock")
          /\ (mpc = "close" /\ mpc' # "close") => (~done /\ done')
          /\ mpc = "finished" => mpc' = "finished"]_vars

\* the latch has fired and the mutex is free again; one caller stopped the
\* job and the other came after the end
C36_Witness ==
    /\ done
    /\ mu = "free"
    /\ mpc = "finished"
    /\ cres["c1"] = "ok"
    /\ cres["c2"] = "not running"
    /\ status = stopped

\* C37: the writer never sends on a closed channel.  A channel is closed
\* only once its reader is out of the reader set and out of what a running
\* pass has yet to visit; the pass holds job.mu from its first send to its
\* last; so every send of the pass goes to an open channel, in every
\* interleaving of the pass with the two halves of Close.
C37_NoSendOnClosed ==
    /\ [](/\ \A r \in readers \cup wtodo : ~newData[r].closed
          /\ wpc = "sending" => (mu = "writer" /\ wtodo \subseteq readers))
    /\ [][\A r \in Readers :
            /\ (r \in wtodo /\ r \notin wtodo') => ~newData[r].closed
            /\ (newData'[r].closed /\ ~newData[r].closed) =>
                 (r \notin readers /\ r \notin wtodo)]_vars

\* a pass is under way and has r2 yet to notify, while the channel of r1,
\* which left the reader set before the pass began, is closed
C37_Witness ==
    /\ wpc = "sending"
    /\ mu = "writer"
    /\ wtodo = {"r2"}
    /\ readers = {"r2"}
    /\ newData["r1"].closed
    /\ nWrites = 1

\* C38: no task is stuck for ever.  Only the monitor keeps the job mutex
\* from one step to the next, and only between recording and unlocking, so
\* a StopJob caller that waits for the latch does not hold it; whoever holds
\* the mutex can take its next step; a writer that has appended finds the
\* mutex free; a monitor that is past the latch has fired it, and while the
\* latch is unfired after the reap the monitor can go on.  Once the child
\* is reaped the latch fires with the mutex free again, the waiting caller
\* returns and the parked Read returns.
C38_NoDeadlock ==
    /\ [](/\ mu \in {"free", "monitor"}
          /\ mu = "monitor" <=> mpc \in {"delete", "close", "unlock"}
          /\ mpc \in {"unlock", "finished"} => done
          /\ (mu = "monitor" \/ (child = "exited" /\ ~done)) =>
                ENABLED MonitorStep
          /\ wpc = "notify" => ENABLED WriterNotify)
    /\ (child = "exited") ~> (done /\ mu = "free")
    /\ (child = "exited" /\ cpc["c1"] = "wait") ~> (cpc["c1"] = "returned")
    /\ (child = "exited" /\ rpc["r1"] = "select") ~> (rpc["r1"] # "select")

\* the caller waits for the latch and the Read is parked while the monitor
\* holds the mutex, about to delete the cgroup
C38_Witness ==
    /\ cpc["c1"] = "wait"
    /\ rpc["r1"] = "select"
    /\ mu = "monitor"
    /\ mpc = "delete"
    /\ ~done

\* C39: whatever the interleaving of the requests, at most one manager is
\* ever made for an owner and the owner's entry, once set, is never
\* replaced; so the manager that a started job lives in is the one that the
\* owner's later requests are given; and a stop, status or stream request
\* makes no manager.
C39_OneManager ==
    /\ [](/\ \A o \in Owners : mgrMade[o] <= 1 /\ mgrOf[o] = mgrMade[o]
          /\ \A q \in Requests :
               /\ qpc[q] \in {"start", "started", "failed"} =>
                    (qmgr[q] # 0 /\ qmgr[q] = mgrOf[qown[q]])
               /\ qpc[q] = "looked" =>
                    (qmgr[q] = 0 \/ qmgr[q] = mgrOf[qown[q]]))
    /\ [][/\ \A o \in Owners : mgrOf[o] # 0 => mgrOf'[o] = mgrOf[o]
          /\ \A q \in Requests :
               (qpc[q] = "idle" /\ qpc'[q] = "looked") =>
                   /\ qmgr'[q] = mgrOf[qown'[q]]
                   /\ UNCHANGED <<mgrOf, mgrMade>>]_vars

\* two start requests of owner A have both started their job in A's one
\* manager, and a request of owner B that only looked found none
C39_Witness ==
    /\ qown["q1"] = "A" /\ qpc["q1"] = "started"
    /\ qown["q2"] = "A" /\ qpc["q2"] = "started"
    /\ qmgr["q1"] = 1 /\ qmgr["q2"] = 1
    /\ mgrMade = [o \in Owners |-> IF o = "A" THEN 1 ELSE 0]
    /\ qown["q3"] = "B" /\ qpc["q3"] = "looked" /\ qmgr["q3"] = 0

\* C40: with any number of StopJob callers on the same job: a caller that
\* found the status Running triggers the cancellation and gets its success
\* only once the latch has fired; a caller that comes to the check after the
\* latch gets "not running"; the cancellation, once triggered, stays as it
\* is; the cgroup is deleted in the monitor's one delete step only; and a
\* terminal status never changes again.
C40_ConcurrentStops ==
    [][/\ \A c \in Stoppers :
            /\ (cpc[c] = "cancel" /\ cpc'[c] # "cancel") => cancelled'
            /\ (cres'[c] = "ok" /\ cres[c] # "ok") => (done /\ cancelled)
            /\ (cpc[c] = "check" /\ cpc'[c] # "check" /\ done) =>
                 (cres'[c] = "not running" /\ cpc'[c] = "returned")
            /\ (cpc[c] = "check" /\ cpc'[c] = "cancel") =>
                 (status = running /\ ~done)
       /\ cancelled => cancelled'
       /\ ((cgroupDir' # cgroupDir /\ cgroupDir' = "deleted")
             \/ cleanupErr' # cleanupErr) =>
              (mpc = "delete" /\ mpc' = "close")
       /\ mpc = "finished" => mpc' = "finished"
       /\ status \in Terminal => status' = status
      ]_vars

====
